---- MODULE Spec2Model ----
(***************************************************************************)
(* The message bus (bus/messages.py, bus/router.py), the agent runtime     *)
(* (agents/base.py) and the task/workflow resolver (agents/translator.py)  *)
(* as state machines.                                                      *)
(*                                                                         *)
(* Message.timestamp (datetime.now()) is written by create() and read by   *)
(* no code of the bus, the runtime or the resolver; it is left out.        *)
(***************************************************************************)
EXTENDS Integers, Sequences, FiniteSets, TLC

\* ------------------------------------------------------------------ bounds
\* External route calls (agent.send / router.route issued by a caller).
MaxRoutes == 2
\* External on(content_type, handler) registrations after construction.
MaxOn == 1
\* Workflows in a provider snapshot given to a direct call of the resolver.
MaxWorkflows == 2

\* ------------------------------------------------------------------- state
VARIABLES
    agents,     \* Router._agents: name -> inbox
    inbox,      \* the content of every asyncio.Queue, head first
    closed,     \* inboxes whose put raises
    handlers,   \* BaseAgent._handlers per agent: content_type -> handler
    running,    \* BaseAgent._running per agent
    pc,         \* where each agent's run() is
    cur,        \* the message and handler of the invocation in progress
    nroutes,    \* external route calls made so far
    non,        \* external on() calls made so far
    workflows,  \* what the capability provider's get_all_workflows() returns
    scripts,    \* the provider's scripts by id (get_script_by_id)
    rtask,      \* the Task a direct call of the resolver's methods is given
    res,        \* what the last direct call of a resolver method returned
    call,       \* the last direct call of Message.reply: arguments and result
    ret,        \* the last route call, dequeue or handler invocation
    pending,    \* route calls between their lookup and their put
    response,   \* PingerAgent.response_received and response_message
    setorder,   \* the order in which the translator's interpreter iterates a
                \* set of the names of available inputs
    pending_queries  \* ChatAgent.pending_queries: conversation_id -> message

vars == <<agents, inbox, closed, handlers, running, pc, cur, nroutes, non,
          workflows, scripts, rtask, res, call, ret, pending, response, setorder,
          pending_queries>>

\* ------------------------------------------------------------- bus/messages
REQUEST == "request"
INFORM == "inform"
FAILURE == "failure"

\* Optional[str] = None
None == "<None>"

\* Message.create: the dataclass constructor, field for field.
create(performative, sender, receiver, conversation_id, content_type, content) ==
    [performative |-> performative, sender |-> sender, receiver |-> receiver,
     conversation_id |-> conversation_id, content_type |-> content_type,
     content |-> content]

\* `sender or self.receiver`: None and the empty string are both falsy.
ReplySender(self, sender) ==
    IF sender = None \/ sender = "" THEN self.receiver ELSE sender

\* Message.reply
reply(self, performative, content_type, content, sender) ==
    create(performative, ReplySender(self, sender), self.sender,
           self.conversation_id, content_type, content)

\* ---------------------------------------------------------------- strings
\* A Python str is a sequence of one-character strings, so that substring
\* tests, tokenisation, case folding and suffix tests are computed.
S_geometry == <<"g", "e", "o", "m", "e", "t", "r", "y">>
S_weather == <<"w", "e", "a", "t", "h", "e", "r">>
S_schedule == <<"s", "c", "h", "e", "d", "u", "l", "e">>
S_data == <<"d", "a", "t", "a">>
S_config == <<"c", "o", "n", "f", "i", "g">>
S_algorithm == <<"a", "l", "g", "o", "r", "i", "t", "h", "m">>
S_timestep == <<"t", "i", "m", "e", "s", "t", "e", "p">>
S_temperature == <<"t", "e", "m", "p", "e", "r", "a", "t", "u", "r", "e">>
S_building == <<"b", "u", "i", "l", "d", "i", "n", "g">>
S_district == <<"d", "i", "s", "t", "r", "i", "c", "t">>
S_cooling == <<"c", "o", "o", "l", "i", "n", "g">>
S_buildings == <<"b", "u", "i", "l", "d", "i", "n", "g", "s">>
S_weather_file == <<"w", "e", "a", "t", "h", "e", "r", "_", "f", "i", "l", "e">>
S_scenario_config == <<"s", "c", "e", "n", "a", "r", "i", "o", "_", "c", "o", "n", "f", "i", "g">>
S_scenario_yml == <<"s", "c", "e", "n", "a", "r", "i", "o", ".", "y", "m", "l">>
S_optimization == <<"o", "p", "t", "i", "m", "i", "z", "a", "t", "i", "o", "n">>
Ext_geojson == <<".", "g", "e", "o", "j", "s", "o", "n">>
Ext_epw == <<".", "e", "p", "w">>
Ext_csv == <<".", "c", "s", "v">>
Ext_xlsx == <<".", "x", "l", "s", "x">>
S_demand == <<"d", "e", "m", "a", "n", "d">>
S_thermal == <<"t", "h", "e", "r", "m", "a", "l">>
S_network == <<"n", "e", "t", "w", "o", "r", "k">>
S_pipes == <<"p", "i", "p", "e", "s">>
N_estimate_cooling_demand == <<"e", "s", "t", "i", "m", "a", "t", "e", "_", "c", "o", "o", "l", "i", "n", "g", "_", "d", "e", "m", "a", "n", "d">>
N_design_network == <<"d", "e", "s", "i", "g", "n", "_", "n", "e", "t", "w", "o", "r", "k">>
N_cooling_system == <<"c", "o", "o", "l", "i", "n", "g", "_", "s", "y", "s", "t", "e", "m">>
N_cooling_demand_report == <<"c", "o", "o", "l", "i", "n", "g", "_", "d", "e", "m", "a", "n", "d", "_", "r", "e", "p", "o", "r", "t">>
N_thermal_comfort == <<"t", "h", "e", "r", "m", "a", "l", "_", "c", "o", "m", "f", "o", "r", "t">>
I_cooling_demand == <<"c", "o", "o", "l", "i", "n", "g", " ", "d", "e", "m", "a", "n", "d">>
I_Cooling_Demand == <<"C", "o", "o", "l", "i", "n", "g", " ", "D", "e", "m", "a", "n", "d">>
I_xyzzy == <<"x", "y", "z", "z", "y">>
I_thermal_comfort == <<"t", "h", "e", "r", "m", "a", "l", " ", "c", "o", "m", "f", "o", "r", "t">>
V_zone_geojson == <<"z", ".", "g", "e", "o", "j", "s", "o", "n">>
V_weather_epw == <<"w", ".", "e", "p", "w">>
V_genetic == <<"g", "e", "n", "e", "t", "i", "c">>
K_site == <<"s", "i", "t", "e">>
I_Network_pipes == <<"N", "e", "t", "w", "o", "r", "k", "-", "p", "i", "p", "e", "s", "_", "N">>
V_demand_csv == <<"d", ".", "c", "s", "v">>
V_rooms_xlsx == <<"r", ".", "x", "l", "s", "x">>
A_demand_calculation == <<"d", "e", "m", "a", "n", "d", "_", "c", "a", "l", "c", "u", "l", "a", "t", "i", "o", "n">>
A_network_optimization == <<"n", "e", "t", "w", "o", "r", "k", "_", "o", "p", "t", "i", "m", "i", "z", "a", "t", "i", "o", "n">>

\* str.lower on the letters used in capitals here.
LowerChar(c) ==
    CASE c = "C" -> "c" [] c = "D" -> "d" [] c = "N" -> "n" [] c = "W" -> "w"
      [] OTHER -> c
lower(s) == [i \in 1..Len(s) |-> LowerChar(s[i])]

\* Characters that are not \w (letters, digits and the underscore are).
NonWordChars == {" ", ".", "-", ",", "/"}
\* Characters str.split() splits on.
Whitespace == {" "}

\* The maximal runs of characters outside `seps`, in order of appearance.
RECURSIVE Runs(_, _, _)
Runs(s, seps, acc) ==
    IF s = <<>>
    THEN (IF acc = <<>> THEN <<>> ELSE <<acc>>)
    ELSE IF Head(s) \in seps
         THEN (IF acc = <<>> THEN <<>> ELSE <<acc>>) \o Runs(Tail(s), seps, <<>>)
         ELSE Runs(Tail(s), seps, Append(acc, Head(s)))

\* A tokeniser that splits on spaces only.
findall_words_Spaces(s) == Runs(s, Whitespace, <<>>)

\* re.findall(r'\w+', s)
findall_words(s) == Runs(s, NonWordChars, <<>>)
\* s.split()
split(s) == Runs(s, Whitespace, <<>>)

\* A test for a prefix (s.startswith(sub)).
Contains_Prefix(sub, s) ==
    Len(sub) <= Len(s) /\ SubSeq(s, 1, Len(sub)) = sub

\* sub in s
Contains(sub, s) ==
    \E i \in 0..(Len(s) - Len(sub)) : SubSeq(s, i + 1, i + Len(sub)) = sub
\* s.endswith(suffix)
endswith(s, suffix) ==
    /\ Len(suffix) <= Len(s)
    /\ SubSeq(s, Len(s) - Len(suffix) + 1, Len(s)) = suffix

Range(f) == {f[i] : i \in DOMAIN f}

\* ----------------------------------------------------------- agents/models
\* Task.scope = None
NoScope == <<>>
Scopes == {S_building, S_district}

\* dict.keys() / dict.values() of a Dict[str, str] kept as a sequence of
\* <<key, value>> pairs in insertion order.
Keys(d) == {d[i][1] : i \in DOMAIN d}
Values(d) == {d[i][2] : i \in DOMAIN d}

\* Task.from_dict: cls(**data) validates; intent and raw_text are required and
\* scope is None or one of the two literals.  [ok, task].
from_dict(data) ==
    IF /\ "intent" \in DOMAIN data
       /\ "raw_text" \in DOMAIN data
       /\ ("scope" \in DOMAIN data => data.scope \in Scopes \cup {NoScope})
    THEN [ok |-> TRUE,
          task |-> [intent |-> data.intent,
                    scope |-> IF "scope" \in DOMAIN data THEN data.scope ELSE NoScope,
                    inputs |-> IF "inputs" \in DOMAIN data THEN data.inputs ELSE <<>>,
                    constraints |-> IF "constraints" \in DOMAIN data
                                    THEN data.constraints ELSE <<>>,
                    raw_text |-> data.raw_text]]
    ELSE [ok |-> FALSE,
          task |-> [intent |-> <<>>, scope |-> NoScope, inputs |-> <<>>,
                    constraints |-> <<>>, raw_text |-> ""]]

\* ------------------------------------------------------- agents/translator
\* _find_best_workflow returning None
NoWorkflow == [id |-> "None", name |-> <<>>, tags |-> <<>>, steps |-> <<>>]

RecognizedInputs == {S_geometry, S_weather, S_schedule, S_data, S_config}
RecognizedConstraints == {S_algorithm, S_timestep, S_temperature}

\* The tag the if/elif chain infers from one input value.
ExtensionTags(v) ==
    IF endswith(v, Ext_geojson) THEN {S_geometry}
    ELSE IF endswith(v, Ext_epw) THEN {S_weather}
    ELSE IF endswith(v, Ext_csv) THEN {S_data}
    ELSE IF endswith(v, Ext_xlsx) THEN {S_schedule}
    ELSE {}

\* _extract_task_tags
extract_task_tags(task) ==
    Range(findall_words(lower(task.intent)))
    \cup (IF task.scope # NoScope THEN {task.scope} ELSE {})
    \cup (Keys(task.inputs) \cap RecognizedInputs)
    \cup UNION {ExtensionTags(v) : v \in Values(task.inputs)}
    \cup (Keys(task.constraints) \cap RecognizedConstraints)

IntentBonus == 5
ScopeBonus == 2

\* _calculate_workflow_score
calculate_workflow_score(task, workflow) ==
    LET overlap == extract_task_tags(task) \cap Range(workflow.tags)
        intent_bonus ==
            IF \/ Contains(task.intent, workflow.name)
               \/ \E word \in Range(split(task.intent)) : Contains(word, workflow.name)
            THEN IntentBonus ELSE 0
        scope_bonus ==
            IF task.scope # NoScope /\ task.scope \in Range(workflow.tags)
            THEN ScopeBonus ELSE 0
    IN  Cardinality(overlap) + intent_bonus + scope_bonus

\* A filter that lets every workflow through.
HasOverlap_Any(task, workflow) == TRUE

\* The filter of _get_candidate_workflows on one workflow.
HasOverlap(task, workflow) ==
    extract_task_tags(task) \cap Range(workflow.tags) # {}

\* _get_candidate_workflows, given what get_all_workflows() returned.
get_candidate_workflows(task, all_workflows) ==
    SelectSeq(all_workflows, LAMBDA w : HasOverlap(task, w))

\* A comparison that lets a later candidate with an equal score win.
Better_OrEqual(score, best_score) == score >= best_score

\* `if score > best_score` of the selection loop.
Better(score, best_score) == score > best_score

\* The for loop of _find_best_workflow.
RECURSIVE BestLoop(_, _, _, _)
BestLoop(task, candidates, best_workflow, best_score) ==
    IF candidates = <<>>
    THEN best_workflow
    ELSE LET workflow == Head(candidates)
             score == calculate_workflow_score(task, workflow)
         IN  IF Better(score, best_score)
             THEN BestLoop(task, Tail(candidates), workflow, score)
             ELSE BestLoop(task, Tail(candidates), best_workflow, best_score)

\* _find_best_workflow
find_best_workflow(task, all_workflows) ==
    LET candidate_workflows == get_candidate_workflows(task, all_workflows)
    IN  IF candidate_workflows = <<>>
        THEN NoWorkflow
        ELSE BestLoop(task, candidate_workflows, NoWorkflow, 0)

\* dict[k] = v
Put(d, k, v) == [x \in (DOMAIN d) \cup {k} |-> IF x = k THEN v ELSE d[x]]
EmptyDict == [x \in {} |-> <<>>]

\* The script_id -> Script dict _compute_plan builds: the steps' scripts that
\* get_script_by_id returned (None for an unknown id is skipped).
FoundScripts(workflow, provided) ==
    {step.script_id : step \in Range(workflow.steps)} \cap DOMAIN provided

\* required_inputs.keys(): the names of the found scripts' required inputs.
required_inputs(workflow, provided) ==
    UNION { {inp.name : inp \in {x \in Range(provided[id].inputs) : x.required}} :
            id \in FoundScripts(workflow, provided) }

RequiresWeather(required) ==
    S_weather_file \in required \/ \E req \in required : Contains(S_weather, lower(req))
RequiresGeometry(required) ==
    S_buildings \in required \/ \E req \in required : Contains(S_geometry, lower(req))
\* A weather test that looks at the input keys only.
HasWeather_KeyOnly(t) == S_weather \in Keys(t.inputs)

HasWeather(t) ==
    (\E v \in Values(t.inputs) : endswith(v, Ext_epw)) \/ S_weather \in Keys(t.inputs)
HasGeometry(t) ==
    (\E v \in Values(t.inputs) : endswith(v, Ext_geojson)) \/ S_geometry \in Keys(t.inputs)

\* available_inputs after the weather and geometry checks
BasicAvailable(t, required) ==
    (IF RequiresWeather(required) /\ HasWeather(t) THEN {"weather_epw"} ELSE {})
    \cup (IF RequiresGeometry(required) /\ HasGeometry(t) THEN {"geometry"} ELSE {})

\* `if available_inputs:` of the scenario_config check
ScenarioAvailable(available) == available # {}

available_inputs(t, required) ==
    BasicAvailable(t, required)
    \cup (IF S_scenario_config \in required /\ ScenarioAvailable(BasicAvailable(t, required))
          THEN {"scenario_config"} ELSE {})

\* missing_inputs, in the order of the three checks
missing_inputs(t, required) ==
    (IF RequiresWeather(required) /\ ~HasWeather(t) THEN <<"weather_epw">> ELSE <<>>)
    \o (IF RequiresGeometry(required) /\ ~HasGeometry(t) THEN <<"geometry">> ELSE <<>>)
    \o (IF S_scenario_config \in required /\ ~ScenarioAvailable(BasicAvailable(t, required))
        THEN <<"scenario_config">> ELSE <<>>)

\* The first loop of _map_task_inputs_to_script_args, in dict order.
RECURSIVE MapInputs(_, _)
MapInputs(inputs, args) ==
    IF inputs = <<>> THEN args
    ELSE LET k == Head(inputs)[1]
             v == Head(inputs)[2]
             next ==
                IF k = S_geometry \/ endswith(v, Ext_geojson) THEN Put(args, "buildings", v)
                ELSE IF k = S_weather \/ endswith(v, Ext_epw) THEN Put(args, "weather_file", v)
                ELSE IF k = S_schedule \/ endswith(v, Ext_xlsx)
                     THEN Put(args, "occupancy_schedules", v)
                ELSE IF k = S_data \/ endswith(v, Ext_csv) THEN Put(args, "energy_demands", v)
                ELSE args
         IN  MapInputs(Tail(inputs), next)

\* The second loop: constraints to parameters.
RECURSIVE MapConstraints(_, _)
MapConstraints(constraints, args) ==
    IF constraints = <<>> THEN args
    ELSE LET k == Head(constraints)[1]
             v == Head(constraints)[2]
             next == IF k = S_algorithm THEN Put(args, "algorithm", v)
                     ELSE IF k = S_timestep THEN Put(args, "timestep", v)
                     ELSE args
         IN  MapConstraints(Tail(constraints), next)

\* _map_task_inputs_to_script_args
map_task_inputs_to_script_args(t, script) ==
    LET args == MapConstraints(t.constraints, MapInputs(t.inputs, EmptyDict))
    IN  IF \E inp \in Range(script.inputs) : inp.name = S_scenario_config
        THEN Put(args, "scenario_config", S_scenario_yml)
        ELSE args

\* The plan-step loop of _compute_plan: a step whose script was not found is
\* skipped.
RECURSIVE plan_steps(_, _, _)
plan_steps(t, steps, provided) ==
    IF steps = <<>> THEN <<>>
    ELSE (IF Head(steps).script_id \in DOMAIN provided
          THEN <<[script_id |-> Head(steps).script_id,
                  args |-> map_task_inputs_to_script_args(
                               t, provided[Head(steps).script_id])]>>
          ELSE <<>>)
         \o plan_steps(t, Tail(steps), provided)

\* _generate_explanation: the parts the text is templated from.  ", ".join of
\* the step descriptions raises TypeError when a description is None.
ExplanationRaises(workflow) ==
    \E step \in Range(workflow.steps) : step.description = None

\* The iteration orders of a set of str: they follow the strings' hashes,
\* which CPython seeds anew in every interpreter process.
AvailableNames == {"weather_epw", "geometry", "scenario_config"}
SetOrders ==
    {o \in [1..3 -> AvailableNames] : \A i, j \in 1..3 : i # j => o[i] # o[j]}
\* No set has been iterated: no translator exists in the process.
NoOrder == <<>>

\* ', '.join(s) of a set s: its elements in the interpreter's iteration order.
join_set(s, order) == SelectSeq(order, LAMBDA x : x \in s)

generate_explanation(t, workflow, available, missing) ==
    [workflow_name |-> workflow.name, intent |-> t.intent, scope |-> t.scope,
     nsteps |-> Len(workflow.steps),
     descriptions |-> [i \in 1..Len(workflow.steps) |-> workflow.steps[i].description],
     available |-> join_set(available, setorder), missing |-> missing]

\* _generate_assumptions
generate_assumptions(t, workflow) ==
    <<"Using default building schedules if not provided",
      "Standard thermal model parameters unless specified">>
    \o (IF t.scope = S_district
        THEN <<"All buildings in district have similar characteristics">>
        ELSE IF t.scope = S_building
        THEN <<"Single building analysis with typical occupancy patterns">>
        ELSE <<>>)
    \o (IF Contains(S_cooling, t.intent)
        THEN <<"Focusing on cooling loads and systems">> ELSE <<>>)
    \o (IF \E step \in Range(workflow.steps) : Contains(S_optimization, step.action)
        THEN <<"Using default optimization objectives unless specified">> ELSE <<>>)

NoPlan == [plan |-> <<>>, explain |-> <<>>, assumptions |-> <<>>, missing |-> <<>>]

\* _compute_plan, given the provider's scripts: [ok (no exception), plan].
compute_plan(t, workflow, provided) ==
    IF ExplanationRaises(workflow)
    THEN [ok |-> FALSE, plan |-> NoPlan]
    ELSE LET required == required_inputs(workflow, provided)
         IN  [ok |-> TRUE,
              plan |-> [plan |-> plan_steps(t, workflow.steps, provided),
                        explain |-> generate_explanation(
                                        t, workflow, available_inputs(t, required),
                                        missing_inputs(t, required)),
                        assumptions |-> generate_assumptions(t, workflow),
                        missing |-> missing_inputs(t, required)]]

\* -------------------------------------------------------------- bus/router
\* A register that forgets the assignment.
register_agent_Skip(ag, name, q) == ag

\* A register that keeps the inbox of a name already registered.
register_agent_KeepFirst(ag, name, q) ==
    [n \in (DOMAIN ag) \cup {name} |-> IF n \in DOMAIN ag THEN ag[n] ELSE q]

\* Router._agents is a dict name -> inbox: a function on the registered names.
register_agent(ag, name, q) ==
    [n \in (DOMAIN ag) \cup {name} |-> IF n = name THEN q ELSE ag[n]]

\* An unregister that leaves the map as it is.
unregister_agent_Keep(ag, name) == ag

\* An unregister that empties the map.
unregister_agent_Clear(ag, name) == [n \in {} |-> "q1"]

unregister_agent(ag, name) ==
    IF name \in DOMAIN ag THEN [n \in (DOMAIN ag) \ {name} |-> ag[n]] ELSE ag

\* A put that succeeds on every inbox, shut down or not.
PutRaises_Never(cl, q) == FALSE

\* asyncio.Queue.put on an unbounded queue appends at the tail; it raises only
\* on an inbox that has been shut down (the set cl).
PutRaises(cl, q) == q \in cl

\* route without the `is None` test on the lookup: it reports success always.
route_NoNoneTest(ag, qs, cl, m) ==
    IF m.receiver \notin DOMAIN ag
    THEN [ok |-> TRUE, inbox |-> qs]
    ELSE [ok |-> TRUE, inbox |-> [qs EXCEPT ![ag[m.receiver]] = Append(@, m)]]

\* route that puts the message on every registered inbox.
route_Broadcast(ag, qs, cl, m) ==
    IF m.receiver \notin DOMAIN ag
    THEN [ok |-> FALSE, inbox |-> qs]
    ELSE [ok |-> TRUE,
          inbox |-> [q \in DOMAIN qs |->
                        IF q \in Range(ag) THEN Append(qs[q], m) ELSE qs[q]]]

\* route on a LIFO inbox: the message goes to the head.
route_Prepend(ag, qs, cl, m) ==
    IF m.receiver \notin DOMAIN ag
    THEN [ok |-> FALSE, inbox |-> qs]
    ELSE [ok |-> TRUE, inbox |-> [qs EXCEPT ![ag[m.receiver]] = <<m>> \o @]]

\* route that parks a message for an unregistered receiver on a caller's inbox.
route_Park(ag, qs, cl, m) ==
    IF m.receiver \notin DOMAIN ag
    THEN [ok |-> FALSE, inbox |-> [qs EXCEPT !["q1"] = Append(@, m)]]
    ELSE [ok |-> TRUE, inbox |-> [qs EXCEPT ![ag[m.receiver]] = Append(@, m)]]

\* A put that waits, as on a queue that is full.
PutSuspends_Always(qs, q) == TRUE

\* `await receiver_inbox.put(message)` gives control to the event loop only
\* while the queue is full; every inbox is made by asyncio.Queue() with no
\* maxsize, which is never full.
PutSuspends(qs, q) == FALSE

\* Router.route: [ok |-> the return value, inbox |-> the inboxes afterwards].
route(ag, qs, cl, m) ==
    IF m.receiver \notin DOMAIN ag
    THEN [ok |-> FALSE, inbox |-> qs]
    ELSE LET q == ag[m.receiver]
         IN  IF PutRaises(cl, q)
             THEN [ok |-> FALSE, inbox |-> qs]
             ELSE [ok |-> TRUE, inbox |-> [qs EXCEPT ![q] = Append(@, m)]]

\* Several route calls issued one after another by one handler invocation:
\* [inbox |-> the inboxes afterwards, results |-> <<[msg, ok], ...>>].
RECURSIVE RouteAll(_, _, _, _)
RouteAll(ag, qs, cl, msgs) ==
    IF msgs = <<>>
    THEN [inbox |-> qs, results |-> <<>>]
    ELSE LET r == route(ag, qs, cl, Head(msgs))
             rest == RouteAll(ag, r.inbox, cl, Tail(msgs))
         IN  [inbox |-> rest.inbox,
              results |-> <<[msg |-> Head(msgs), ok |-> r.ok]>> \o rest.results]

\* ------------------------------------------------------------ agents/base
\* Agent objects; each owns the inbox of the same identifier.
\* Agent objects.  "ponger2" is a second PongerAgent made on the same router.
Agents == {"chat", "pinger", "ponger", "ponger2", "translator"}
\* BaseAgent.name, fixed by the subclass constructor: every PongerAgent is
\* named "ponger".
AgentName(a) == IF a = "ponger2" THEN "ponger" ELSE a
\* Inboxes owned by callers (tests and the CLI register temporary inboxes).
ExtInboxes == {"q1", "q2"}
Inboxes == Agents \cup ExtInboxes


NoMsg == create("-", "-", "-", 0, "-", [none |-> TRUE])
NoCall == [op |-> "init", self |-> NoMsg, performative |-> "-", content_type |-> "-",
           content |-> [none |-> TRUE], sender |-> None, result |-> NoMsg]
NoCur == [msg |-> NoMsg, handler |-> "-"]
\* PingerAgent.__init__ and reset(): response_received = False,
\* response_message = None.  ping_sent_time (time.time()) is read by no code.
NoResponse == [received |-> FALSE, message |-> NoMsg]
\* ChatAgent.__init__: pending_queries = {}
NoPending == [c \in {} |-> NoMsg]

\* ret records route calls, dequeues and handler invocations only.  Every such
\* record differs from the one before it: external messages carry fresh
\* conversation ids, and a conversation has at most one message in flight.
Log(op, a, m, h, results) ==
    [op |-> op, agent |-> a, msg |-> m, handler |-> h, routes |-> results]

\* The handler table each constructor's setup_handlers() leaves.
SetupHandlers(a) ==
    IF a \in {"ponger", "ponger2"} THEN [t \in {"ping"} |-> "handle_ping"]
    ELSE IF a = "pinger" THEN [t \in {"pong"} |-> "handle_pong"]
    ELSE IF a = "translator"
    THEN [t \in {"translate", "language_detect", "task"} |->
            IF t = "translate" THEN "handle_translate"
            ELSE IF t = "language_detect" THEN "handle_language_detect"
            ELSE "handle_task"]
    ELSE IF a = "chat"
    THEN [t \in {"query", "user_text", "script_results", "workflow_results",
                 "response", "plan"} |-> "handle_" \o t]
    ELSE [t \in {} |-> "-"]

\* An on() that keeps the handler a content type already has (dict.setdefault).
on_KeepFirst(tbl, content_type, handler) ==
    [t \in (DOMAIN tbl) \cup {content_type} |->
        IF t \in DOMAIN tbl THEN tbl[t] ELSE handler]

\* BaseAgent.on(content_type)(handler): plain dict assignment.
on(tbl, content_type, handler) ==
    [t \in (DOMAIN tbl) \cup {content_type} |->
        IF t = content_type THEN handler ELSE tbl[t]]

\* A reply addressed to the replying agent itself.
agent_reply_ToSelf(a, original_message, performative, content_type, content) ==
    create(performative, AgentName(a), AgentName(a),
           original_message.conversation_id, content_type, content)

\* BaseAgent.reply: Message.reply with sender = self.name.
agent_reply(a, original_message, performative, content_type, content) ==
    reply(original_message, performative, content_type, content, AgentName(a))

\* str(e) / an f-string around a value: the fixed text and the value.
Text(text, arg) == [text |-> text, arg |-> arg]
NoError == Text("", <<>>)

\* The calls of the capability provider that may raise during one handler run.
Faults == {"none", "get_all_workflows", "get_script_by_id"}

\* A reply that reports every computed plan as a success.
PlanReply_AlwaysInform(a, m, best_workflow, plan) ==
    agent_reply(a, m, INFORM, "plan",
                [plan |-> plan,
                 workflow_id |-> best_workflow.id,
                 workflow_name |-> best_workflow.name])

\* The reply handle_task sends once a plan was computed.
PlanReply(a, m, best_workflow, plan) ==
    IF plan.missing # <<>>
    THEN agent_reply(a, m, FAILURE, "plan",
                     [reason |-> Text("Missing required inputs", plan.missing),
                      missing |-> plan.missing,
                      plan |-> plan])
    ELSE agent_reply(a, m, INFORM, "plan",
                     [plan |-> plan,
                      workflow_id |-> best_workflow.id,
                      workflow_name |-> best_workflow.name])

\* An except branch that answers with a fresh conversation.
TaskErrorReply_NewConversation(a, m) ==
    create(FAILURE, AgentName(a), m.sender, 0, "error",
           [error |-> Text("Failed to process task", <<>>)])

\* The reply of handle_task's except branch.
TaskErrorReply(a, m) ==
    agent_reply(a, m, FAILURE, "error",
                [error |-> Text("Failed to process task", <<>>)])

\* QueryTranslatorAgent's handler for "task": the one message it routes.
handle_task(a, m, fault) ==
    LET parsed == from_dict(m.content)
        t == parsed.task
    IN  IF ~parsed.ok \/ fault = "get_all_workflows"
        THEN TaskErrorReply(a, m)
        ELSE LET best_workflow == find_best_workflow(t, workflows)
             IN  IF best_workflow = NoWorkflow
                 THEN agent_reply(a, m, FAILURE, "error",
                          [error |-> Text("No workflow found for intent", t.intent)])
                 ELSE IF fault = "get_script_by_id" /\ best_workflow.steps # <<>>
                 THEN TaskErrorReply(a, m)
                 ELSE LET cp == compute_plan(t, best_workflow, scripts)
                      IN  IF ~cp.ok
                          THEN TaskErrorReply(a, m)
                          ELSE PlanReply(a, m, best_workflow, cp.plan)

\* message.content.get("text", "")
content_get_text(content) ==
    IF "text" \in DOMAIN content THEN content.text ELSE ""

\* QueryTranslatorAgent's handler for "translate": the one message it routes.
\* The mock translation is kept as the pair of its arguments.
handle_translate(a, m) ==
    LET text == content_get_text(m.content)
        target_language ==
            IF "target_language" \in DOMAIN m.content
            THEN m.content.target_language ELSE "en"
    IN  IF text = ""
        THEN agent_reply(a, m, FAILURE, "error",
                 [error |-> Text("No text provided for translation", <<>>)])
        ELSE agent_reply(a, m, INFORM, "translation_result",
                 [original_text |-> text,
                  translated_text |-> Text("_translate", <<text, target_language>>),
                  target_language |-> target_language])

\* QueryTranslatorAgent's handler for "language_detect".
handle_language_detect(a, m) ==
    LET text == content_get_text(m.content)
    IN  IF text = ""
        THEN agent_reply(a, m, FAILURE, "error",
                 [error |-> Text("No text provided for language detection", <<>>)])
        ELSE agent_reply(a, m, INFORM, "language_detection_result",
                 [text |-> text,
                  detected_language |-> Text("_detect_language", <<text>>)])

\* PingerAgent's handler for "pong": what it leaves in response_received and
\* response_message.  It routes nothing.
handle_pong(m) == [received |-> TRUE, message |-> m]

\* ------------------------------------------------------------ agents/chat
\* BaseAgent.send with a conversation id given: the message it routes.
agent_send(a, receiver, performative, content_type, content, conversation_id) ==
    create(performative, AgentName(a), receiver, conversation_id, content_type, content)

\* message.content.get(key, default)
content_get(content, key, default) ==
    IF key \in DOMAIN content THEN content[key] ELSE default

\* Texts users send.  X_empty is the empty string.
X_empty == ""
X_faq == "what is cea"
X_full == "estimate cooling demand for district with z.geojson and w.epw"
X_noweather == "estimate cooling demand for district with z.geojson"
X_unmatched == "xyzzy"
UserTexts == {X_empty, X_faq, X_full, X_noweather, X_unmatched}

I_general_analysis ==
    <<"g", "e", "n", "e", "r", "a", "l", "_", "a", "n", "a", "l", "y", "s", "i", "s">>

\* _lookup_faq on the sample texts, with a glossary whose one entry is the
\* question "What is CEA?": a text needs one of the indicators ("what is", ...)
\* and a listed word ("cea") in common with the question.  Otherwise None,
\* which `if faq_answer:` treats as it treats the empty text.
lookup_faq(user_text) ==
    IF user_text = X_faq THEN Text("City Energy Analyst", <<>>) ELSE Text("", <<>>)

\* _parse_task on the sample texts: the intent with the best keyword score
\* ("general_analysis" when no keyword occurs), the scope word, and the file
\* names by extension; raw_text is the text.
parse_task(user_text) ==
    [intent |-> IF user_text \in {X_full, X_noweather}
                THEN I_cooling_demand ELSE I_general_analysis,
     scope |-> IF user_text \in {X_full, X_noweather} THEN S_district ELSE NoScope,
     inputs |-> IF user_text = X_full
                THEN <<<<S_geometry, V_zone_geojson>>, <<S_weather, V_weather_epw>>>>
                ELSE IF user_text = X_noweather
                THEN <<<<S_geometry, V_zone_geojson>>>>
                ELSE <<>>,
     constraints |-> <<>>,
     raw_text |-> user_text]

\* del self.pending_queries[conversation_id]
pending_del(pq, conversation_id) ==
    [c \in (DOMAIN pq) \ {conversation_id} |-> pq[c]]

\* self.pending_queries[conversation_id] = message
pending_set(pq, conversation_id, message) ==
    [c \in (DOMAIN pq) \cup {conversation_id} |->
        IF c = conversation_id THEN message ELSE pq[c]]

\* A relay that keeps the entry of the request it has answered.
relay_KeepEntry(a, pq, conversation_id, performative, content_type, content) ==
    IF conversation_id \in DOMAIN pq
    THEN [sends |-> <<agent_reply(a, pq[conversation_id], performative,
                                  content_type, content)>>,
          pending |-> pq]
    ELSE [sends |-> <<>>, pending |-> pq]

\* A relay that reports every answer as a success.
relay_AlwaysInform(a, pq, conversation_id, performative, content_type, content) ==
    IF conversation_id \in DOMAIN pq
    THEN [sends |-> <<agent_reply(a, pq[conversation_id], INFORM,
                                  content_type, content)>>,
          pending |-> pending_del(pq, conversation_id)]
    ELSE [sends |-> <<>>, pending |-> pq]

\* The tail every answering handler of the chat agent shares: look the
\* original message up by conversation id; reply to it and delete the entry,
\* or log a warning.  [sends, pending (pending_queries afterwards)].
relay(a, pq, conversation_id, performative, content_type, content) ==
    IF conversation_id \in DOMAIN pq
    THEN [sends |-> <<agent_reply(a, pq[conversation_id], performative,
                                  content_type, content)>>,
          pending |-> pending_del(pq, conversation_id)]
    ELSE [sends |-> <<>>, pending |-> pq]

\* ChatAgent._handle_user_text: an FAQ answer goes back at once, anything
\* else is parsed into a Task and sent to the translator.
process_user_text(a, pq, user_text, conversation_id) ==
    LET faq_answer == lookup_faq(user_text)
    IN  IF faq_answer.text # ""
        THEN relay(a, pq, conversation_id, INFORM, "response", [answer |-> faq_answer])
        ELSE [sends |-> <<agent_send(a, "translator", REQUEST, "task",
                                     parse_task(user_text), conversation_id)>>,
              pending |-> pq]

\* The text of a result list: the fixed line and the items, or the line that
\* nothing was found.
ResultsText(found, nothing, items) ==
    IF items # <<>> THEN Text(found, items) ELSE Text(nothing, <<>>)

\* The handlers setup_handlers() attaches to the chat agent, run on message m
\* with pending_queries = pq: [sends, pending].
chat_handle(a, h, m, pq) ==
    CASE h = "handle_query" ->
           LET query == content_get(m.content, "question", "")
           IN  IF query = ""
               THEN [sends |-> <<agent_reply(a, m, FAILURE, "error",
                                   [error |-> Text("No question provided in query", <<>>)])>>,
                     pending |-> pq]
               ELSE process_user_text(a, pending_set(pq, m.conversation_id, m),
                                      query, m.conversation_id)
      [] h = "handle_user_text" ->
           LET user_text == content_get(m.content, "text", "")
           IN  IF user_text = ""
               THEN [sends |-> <<agent_reply(a, m, FAILURE, "error",
                                   [error |-> Text("No text provided", <<>>)])>>,
                     pending |-> pq]
               ELSE process_user_text(a, pending_set(pq, m.conversation_id, m),
                                      user_text, m.conversation_id)
      [] h = "handle_script_results" ->
           relay(a, pq, m.conversation_id, INFORM, "response",
                 [answer |-> ResultsText("Found these scripts for your query:",
                                         "No scripts found matching your query.",
                                         content_get(m.content, "scripts", <<>>))])
      [] h = "handle_workflow_results" ->
           relay(a, pq, m.conversation_id, INFORM, "response",
                 [answer |-> ResultsText("Found these workflows:",
                                         "No workflows found matching your query.",
                                         content_get(m.content, "workflows", <<>>))])
      [] h = "handle_response" ->
           relay(a, pq, m.conversation_id, INFORM, "response",
                 [answer |-> content_get(m.content, "answer", Text("No response", <<>>))])
      [] h = "handle_plan" ->
           relay(a, pq, m.conversation_id, m.performative, m.content_type, m.content)
      [] OTHER -> [sends |-> <<>>, pending |-> pq]

ChatHandlers == {"handle_query", "handle_user_text", "handle_script_results",
                 "handle_workflow_results", "handle_response", "handle_plan"}

\* One handler body run on message m by agent a:
\* [raised, error (str(e)), sends (the messages it routes, in order)].
invoke(a, h, m, fault) ==
    CASE h = "handle_ping" ->
           [raised |-> FALSE, error |-> NoError,
            sends |-> <<agent_reply(a, m, INFORM, "pong", [message |-> "pong"])>>]
      [] h = "handle_task" ->
           [raised |-> FALSE, error |-> NoError, sends |-> <<handle_task(a, m, fault)>>]
      [] h = "handle_translate" ->
           [raised |-> FALSE, error |-> NoError, sends |-> <<handle_translate(a, m)>>]
      [] h = "handle_language_detect" ->
           [raised |-> FALSE, error |-> NoError,
            sends |-> <<handle_language_detect(a, m)>>]
      [] h = "failing_handler" ->
           [raised |-> TRUE, error |-> Text("Test error", <<>>), sends |-> <<>>]
      [] h \in ChatHandlers ->
           [raised |-> FALSE, error |-> NoError,
            sends |-> chat_handle(a, h, m, pending_queries).sends]
      [] OTHER ->
           [raised |-> FALSE, error |-> NoError, sends |-> <<>>]

\* The automatic reply of handle_message's except branch.
FailureReply(a, m, error) ==
    agent_reply(a, m, FAILURE, "error",
                [error |-> error, original_content_type |-> m.content_type])

\* handle_message that swallows the handler's exception.
HandlerRoutes_Swallow(a, h, m, fault) == invoke(a, h, m, fault).sends

\* BaseAgent.handle_message once a handler was found: the messages routed by the
\* handler followed by the automatic FAILURE reply if the handler raised.
HandlerRoutes(a, h, m, fault) ==
    LET r == invoke(a, h, m, fault)
    IN  r.sends \o (IF r.raised THEN <<FailureReply(a, m, r.error)>> ELSE <<>>)

\* A loop that returns after one poll cycle.
LoopTest_Once(isRunning) == "exited"

\* A loop test that never looks at the flag.
LoopTest_Forever(isRunning) == "poll"

\* `while not self._running`
LoopTest_Negated(isRunning) == IF isRunning THEN "exited" ELSE "poll"

\* `while self._running`: the loop test made after every poll cycle.
LoopTest(isRunning) == IF isRunning THEN "poll" ELSE "exited"

\* --------------------------------------------------- capability provider data
Step(script_id, description, action) ==
    [script_id |-> script_id, description |-> description, action |-> action]
ScriptInput(name, type, required) == [name |-> name, type |-> type, required |-> required]

W_cooling ==
    [id |-> "workflow-cooling-demand-001", name |-> N_estimate_cooling_demand,
     tags |-> <<S_cooling, S_demand, S_thermal>>,
     steps |-> <<Step("demand_calc", "Calculate cooling demand", A_demand_calculation)>>]
W_network ==
    [id |-> "workflow-network-001", name |-> N_design_network,
     tags |-> <<S_network, S_pipes>>,
     steps |-> <<Step("network_opt", "Optimize the network", A_network_optimization)>>]
W_system ==
    [id |-> "workflow-cooling-system-001", name |-> N_cooling_system,
     tags |-> <<S_cooling, S_district>>,
     steps |-> <<Step("demand_calc", "Calculate cooling demand", A_demand_calculation),
                 Step("unknown_script", "Size the system", A_network_optimization)>>]
W_report ==
    [id |-> "workflow-report-001", name |-> N_cooling_demand_report,
     tags |-> <<S_demand, S_cooling>>,
     steps |-> <<Step("report", "Write the report", A_demand_calculation)>>]
\* WorkflowStep.description is Optional[str] = None.
W_comfort ==
    [id |-> "workflow-comfort-001", name |-> N_thermal_comfort,
     tags |-> <<S_thermal, S_demand>>,
     steps |-> <<Step("demand_calc", None, A_demand_calculation)>>]

WorkflowPool == {W_cooling, W_network, W_system, W_report, W_comfort}

\* The provider's scripts: get_script_by_id(id) is None outside the domain.
ProvidedScripts ==
    [id \in {"demand_calc", "network_opt", "report"} |->
        IF id = "demand_calc"
        THEN [id |-> id,
              inputs |-> <<ScriptInput(S_weather_file, "file", TRUE),
                           ScriptInput(S_buildings, "file", TRUE),
                           ScriptInput(S_scenario_config, "file", TRUE)>>]
        ELSE IF id = "network_opt"
        THEN [id |-> id,
              inputs |-> <<ScriptInput(S_buildings, "file", TRUE),
                           ScriptInput(S_scenario_config, "file", FALSE)>>]
        ELSE [id |-> id,
              inputs |-> <<ScriptInput(S_scenario_config, "file", TRUE)>>]]

\* What get_all_workflows() returns in the runs of the agents.
DefaultCatalog == <<W_cooling, W_network, W_comfort>>

MkTask(intent, scope, inputs, constraints) ==
    [intent |-> intent, scope |-> scope, inputs |-> inputs,
     constraints |-> constraints, raw_text |-> "raw"]

T_full == MkTask(I_cooling_demand, S_district,
                 <<<<S_geometry, V_zone_geojson>>, <<S_weather, V_weather_epw>>>>, <<>>)
T_noweather == MkTask(I_cooling_demand, S_district, <<<<S_geometry, V_zone_geojson>>>>, <<>>)
T_unmatched == MkTask(I_xyzzy, NoScope, <<>>, <<>>)
T_caps == MkTask(I_Cooling_Demand, S_building, <<<<K_site, V_weather_epw>>>>, <<>>)
T_network == MkTask(S_network, NoScope, <<>>, <<<<S_algorithm, V_genetic>>>>)
T_demand == MkTask(S_demand, NoScope, <<>>, <<>>)
T_thermal == MkTask(I_thermal_comfort, NoScope, <<>>, <<>>)
T_empty == MkTask(<<>>, S_district, <<>>, <<>>)
\* The keys weather and geometry with values that have no known extension.
T_keyonly == MkTask(I_cooling_demand, S_building,
                    <<<<S_weather, V_genetic>>, <<S_geometry, K_site>>>>, <<>>)

\* Keys and values of every recognised kind that disagree with each other, an
\* unrecognised key, and an intent with a hyphen, an underscore and capitals.
T_files == MkTask(I_Network_pipes, NoScope,
                  <<<<S_data, V_rooms_xlsx>>, <<S_config, V_demand_csv>>,
                    <<K_site, K_site>>>>,
                  <<<<S_timestep, V_genetic>>, <<S_temperature, V_genetic>>,
                    <<K_site, V_genetic>>>>)
\* The key weather on a value that ends in .geojson.
T_mixed == MkTask(I_cooling_demand, S_district, <<<<S_weather, V_zone_geojson>>>>, <<>>)

Tasks == {T_full, T_noweather, T_unmatched, T_caps, T_network, T_demand, T_thermal,
          T_empty, T_keyonly, T_files, T_mixed}

NoTask == MkTask(<<>>, NoScope, <<>>, <<>>)
NoRes == [op |-> "init", workflow |-> NoWorkflow, ok |-> TRUE, plan |-> NoPlan]

\* ------------------------------------------------------------------ actions
BusInit ==
    /\ agents = [n \in {} |-> "-"]
    /\ inbox = [q \in Inboxes |-> <<>>]
    /\ closed = {}
    /\ handlers = [a \in Agents |-> [t \in {} |-> "-"]]
    /\ running = [a \in Agents |-> FALSE]
    /\ pc = [a \in Agents |-> "none"]
    /\ cur = [a \in Agents |-> NoCur]
    /\ nroutes = 0
    /\ non = 0
    /\ ret = Log("init", "-", NoMsg, "-", <<>>)
    /\ pending = {}
    /\ response = NoResponse
    /\ pending_queries = NoPending

\* The router is new and no agent is constructed; the provider holds the
\* default catalog.
Init ==
    /\ BusInit
    /\ workflows = DefaultCatalog
    /\ scripts = ProvidedScripts
    /\ rtask = NoTask
    /\ res = NoRes
    /\ call = NoCall
    /\ setorder = NoOrder

\* BaseAgent.__init__ followed by the subclass's setup_handlers().  The hash
\* seed of the interpreter is drawn before any agent exists; the translator is
\* the only code that iterates a set of str, so its construction is where the
\* order becomes part of the state.
Construct(a) ==
    /\ pc[a] = "none"
    /\ setorder' \in (IF a = "translator" THEN SetOrders ELSE {setorder})
    /\ pc' = [pc EXCEPT ![a] = "created"]
    /\ running' = [running EXCEPT ![a] = FALSE]
    /\ handlers' = [handlers EXCEPT ![a] = SetupHandlers(a)]
    /\ agents' = register_agent(agents, AgentName(a), a)
    /\ UNCHANGED <<inbox, closed, cur, nroutes, non, workflows, scripts, rtask, res, call, ret, pending, response, pending_queries>>

ContentTypesOn == {"ping", "test_type"}
HandlersOn == {"failing_handler", "handle_test"}

\* agent.on(content_type)(handler) by a caller, after construction.
On(a, t, h) ==
    /\ pc[a] # "none"
    /\ non < MaxOn
    /\ non' = non + 1
    /\ handlers' = [handlers EXCEPT ![a] = on(@, t, h)]
    /\ UNCHANGED <<agents, inbox, closed, running, pc, cur, nroutes, workflows, scripts, rtask, res, call, ret, pending, response, setorder, pending_queries>>

\* The first statement of run(), `self._running = True`: the flag run() tests,
\* given the flag it found.
run_entry(isRunning) == TRUE

\* stop(), `self._running = False`: the flag it leaves, given the flag it found.
stop(isRunning) == FALSE

\* run() up to its first wait: _running = True, the loop is entered.  Nothing
\* in run() tells a first call from a call made after an earlier one returned.
RunStart(a) ==
    /\ pc[a] \in {"created", "exited"}
    /\ running' = [running EXCEPT ![a] = run_entry(@)]
    /\ pc' = [pc EXCEPT ![a] = LoopTest(run_entry(running[a]))]
    /\ UNCHANGED <<agents, inbox, closed, handlers, cur, nroutes, non, workflows, scripts, rtask, res, call, ret, pending, response, setorder, pending_queries>>

\* A lookup that falls back to the table's only handler.
handlers_get_Fallback(tbl, content_type) ==
    IF content_type \in DOMAIN tbl THEN tbl[content_type]
    ELSE IF Cardinality(DOMAIN tbl) = 1 THEN tbl[CHOOSE t \in DOMAIN tbl : TRUE]
    ELSE None

\* self._handlers.get(content_type)
handlers_get(tbl, content_type) ==
    IF content_type \in DOMAIN tbl THEN tbl[content_type] ELSE None

\* wait_for(inbox.get()) returns a message; handle_message looks the handler up.
\* Without a handler the message is logged and dropped and the loop goes on.
PollGet(a) ==
    /\ pc[a] = "poll"
    /\ inbox[a] # <<>>
    /\ LET m == Head(inbox[a])
           handler == handlers_get(handlers[a], m.content_type)
       IN  /\ inbox' = [inbox EXCEPT ![a] = Tail(@)]
           /\ IF handler # None
              THEN /\ cur' = [cur EXCEPT ![a] = [msg |-> m, handler |-> handler]]
                   /\ pc' = [pc EXCEPT ![a] = "handling"]
                   /\ ret' = Log("get", a, m, handler, <<>>)
              ELSE /\ cur' = cur
                   /\ pc' = [pc EXCEPT ![a] = LoopTest(running[a])]
                   /\ ret' = Log("drop", a, m, "-", <<>>)
    /\ UNCHANGED <<agents, closed, handlers, running, nroutes, non,
                   workflows, scripts, rtask, res, call, pending, response, setorder, pending_queries>>

\* wait_for times out on an empty inbox: `continue`, then the loop test.
PollTimeout(a) ==
    /\ pc[a] = "poll"
    /\ inbox[a] = <<>>
    /\ pc' = [pc EXCEPT ![a] = LoopTest(running[a])]
    /\ UNCHANGED <<agents, inbox, closed, handlers, running, cur, nroutes, non, workflows, scripts, rtask, res, call, ret, pending, response, setorder, pending_queries>>

\* The handler invocation runs to its end (with the except branch of
\* handle_message), then the loop test.
HandlerFinish(a) ==
    /\ pc[a] = "handling"
    /\ \E fault \in Faults :
         LET m == cur[a].msg
             h == cur[a].handler
             r == RouteAll(agents, inbox, closed, HandlerRoutes(a, h, m, fault))
         IN  /\ inbox' = r.inbox
             /\ ret' = Log("handled", a, m, h, r.results)
    /\ response' = IF cur[a].handler = "handle_pong" THEN handle_pong(cur[a].msg)
                    ELSE response
    /\ pending_queries' =
           IF cur[a].handler \in ChatHandlers
           THEN chat_handle(a, cur[a].handler, cur[a].msg, pending_queries).pending
           ELSE pending_queries
    /\ cur' = [cur EXCEPT ![a] = NoCur]
    /\ pc' = [pc EXCEPT ![a] = LoopTest(running[a])]
    /\ UNCHANGED <<agents, closed, handlers, running, nroutes, non,
                   workflows, scripts, rtask, res, call, pending, setorder>>

\* A stop() that also abandons the handler invocation in progress.
Stop_Interrupt(a) ==
    /\ pc[a] # "none"
    /\ running' = [running EXCEPT ![a] = stop(@)]
    /\ pc' = [pc EXCEPT ![a] = IF @ = "handling" THEN "exited" ELSE @]
    /\ cur' = [cur EXCEPT ![a] = IF pc[a] = "handling" THEN NoCur ELSE @]
    /\ UNCHANGED <<agents, inbox, closed, handlers, nroutes, non, workflows, scripts, rtask, res, call, ret, pending, response, setorder, pending_queries>>

\* BaseAgent.stop
Stop(a) ==
    /\ pc[a] # "none"
    /\ running' = [running EXCEPT ![a] = stop(@)]
    /\ UNCHANGED <<agents, inbox, closed, handlers, pc, cur, nroutes, non, workflows, scripts, rtask, res, call, ret, pending, response, setorder, pending_queries>>

\* A shutdown() that also empties the agent's inbox.
Shutdown_Purge(a) ==
    /\ pc[a] # "none"
    /\ running' = [running EXCEPT ![a] = stop(@)]
    /\ agents' = unregister_agent(agents, AgentName(a))
    /\ inbox' = [inbox EXCEPT ![a] = <<>>]
    /\ UNCHANGED <<closed, handlers, pc, cur, nroutes, non, workflows, scripts, rtask, res, call, ret, pending, response, setorder, pending_queries>>

\* BaseAgent.shutdown: stop(), then unregister_agent(self.name).
Shutdown(a) ==
    /\ pc[a] # "none"
    /\ running' = [running EXCEPT ![a] = stop(@)]
    /\ agents' = unregister_agent(agents, AgentName(a))
    /\ UNCHANGED <<inbox, closed, handlers, pc, cur, nroutes, non, workflows, scripts, rtask, res, call, ret, pending, response, setorder, pending_queries>>

\* router.register_agent(name, q) by a caller that owns inbox q.
Register(name, q) ==
    /\ agents' = register_agent(agents, name, q)
    /\ UNCHANGED <<inbox, closed, handlers, running, pc, cur, nroutes, non, workflows, scripts, rtask, res, call, ret, pending, response, setorder, pending_queries>>

\* router.unregister_agent(name) by a caller.
Unregister(name) ==
    /\ agents' = unregister_agent(agents, name)
    /\ UNCHANGED <<inbox, closed, handlers, running, pc, cur, nroutes, non, workflows, scripts, rtask, res, call, ret, pending, response, setorder, pending_queries>>

\* What callers put into a message of each content type.
ContentOf(t) ==
    IF t = "ping" THEN {[message |-> "ping"]} ELSE {[data |-> "test"]}

ExtContentTypes == {"ping", "test_type"}
Senders == {"client", "ponger"}
Receivers == {"client", "ponger"}

\* A caller builds a message (BaseAgent.send gives it a fresh conversation id)
\* and calls router.route.
Route(m) ==
    /\ nroutes < MaxRoutes
    /\ nroutes' = nroutes + 1
    /\ LET r == route(agents, inbox, closed, m)
       IN  /\ inbox' = r.inbox
           /\ ret' = Log("route", "-", m, "-", <<[msg |-> m, ok |-> r.ok]>>)
    /\ UNCHANGED <<agents, closed, handlers, running, pc, cur, non,
                   workflows, scripts, rtask, res, call, pending, response, setorder, pending_queries>>

\* The steps every agent's run() takes.
AgentStep(a) == PollGet(a) \/ PollTimeout(a) \/ HandlerFinish(a)

\* The bus and one agent (the ponger) with its callers.
Next ==
    \/ Construct("ponger")
    \/ \E a \in Agents, t \in ContentTypesOn, h \in HandlersOn : On(a, t, h)
    \/ \E a \in Agents : RunStart(a)
    \/ \E a \in Agents : PollGet(a)
    \/ \E a \in Agents : PollTimeout(a)
    \/ \E a \in Agents : HandlerFinish(a)
    \/ \E a \in Agents : Stop(a)
    \/ \E a \in Agents : Shutdown(a)
    \/ \E q \in ExtInboxes : Register("client", q)
    \/ Unregister("client")
    \/ \E s \in Senders, r \in Receivers, t \in ExtContentTypes :
         \E c \in ContentOf(t) : Route(create(REQUEST, s, r, nroutes + 1, t, c))

Spec == Init /\ [][Next]_vars

\* The ponger's dispatch loop with the callers that send to it, stop it and
\* listen for its replies.
LoopNext ==
    \/ Construct("ponger")
    \/ \E a \in Agents, t \in ContentTypesOn, h \in HandlersOn : On(a, t, h)
    \/ \E a \in Agents : RunStart(a)
    \/ \E a \in Agents : PollGet(a)
    \/ \E a \in Agents : PollTimeout(a)
    \/ \E a \in Agents : HandlerFinish(a)
    \/ \E a \in Agents : Stop(a)
    \/ \E a \in Agents : Shutdown(a)
    \/ \E q \in ExtInboxes : Register("client", q)
    \/ \E s \in Senders, t \in ExtContentTypes :
         \E c \in ContentOf(t) : Route(create(REQUEST, s, "ponger", nroutes + 1, t, c))

\* The event loop runs every task that is ready: a run() that can take a step
\* eventually takes it.
FairSpec == Init /\ [][LoopNext]_vars /\ \A a \in Agents : WF_vars(AgentStep(a))

\* -------------------------------------------- direct calls of Message.reply
SampleNames == {"agent_a", "agent_b"}
SampleMessages ==
    { create(REQUEST, s, r, c, "query", [question |-> "test"]) :
        s \in SampleNames, r \in SampleNames, c \in 1..2 }
\* The sender argument: omitted (None), the empty string, or a name.
SenderArgs == {None, "", "agent_b", "agent_c"}

\* original.reply(performative, content_type, content, sender)
MessageReply(self, performative, content_type, content, sender) ==
    /\ call' = [op |-> "reply", self |-> self, performative |-> performative,
                content_type |-> content_type, content |-> content,
                sender |-> sender,
                result |-> reply(self, performative, content_type, content, sender)]
    /\ UNCHANGED <<agents, inbox, closed, handlers, running, pc, cur, nroutes, non,
                   workflows, scripts, rtask, res, ret, pending, response, setorder, pending_queries>>

MessageNext ==
    \E self \in SampleMessages, performative \in {INFORM, FAILURE},
       content_type \in {"response", "error"},
       content \in {[answer |-> "test_answer"], [none |-> TRUE]},
       sender \in SenderArgs :
        MessageReply(self, performative, content_type, content, sender)

MessageSpec == Init /\ [][MessageNext]_vars

\* ------------------------------------------------- the resolver agent's runs
\* Message contents sent as "task": Task.to_dict() of a task, or a dict that
\* Task.from_dict rejects (no intent; a scope outside the Literal).
BadContents ==
    { [raw_text |-> "raw"],
      [intent |-> I_cooling_demand, scope |-> K_site, raw_text |-> "raw"] }
TaskContents == {T_full, T_noweather, T_unmatched, T_thermal} \cup BadContents

\* The translator with its callers: "task" requests from the client.
TaskNext ==
    \/ Construct("translator")
    \/ \E a \in Agents : RunStart(a)
    \/ \E a \in Agents : PollGet(a)
    \/ \E a \in Agents : PollTimeout(a)
    \/ \E a \in Agents : HandlerFinish(a)
    \/ \E a \in Agents : Stop(a)
    \/ \E a \in Agents : Shutdown(a)
    \/ \E q \in ExtInboxes : Register("client", q)
    \/ Unregister("client")
    \/ \E c \in TaskContents :
         Route(create(REQUEST, "client", "translator", nroutes + 1, "task", c))

TaskSpec == Init /\ [][TaskNext]_vars

\* ------------------------------------------------------- the ping/pong demo
\* pinger.send_ping(conversation_id): a REQUEST `ping` to the ponger under a
\* conversation id that is new (the caller's uuid4, or the one send() makes).
SendPing ==
    /\ pc["pinger"] # "none"
    /\ Route(create(REQUEST, AgentName("pinger"), "ponger", nroutes + 1, "ping",
                    [message |-> "ping"]))

PingNext ==
    \/ \E a \in {"pinger", "ponger"} : Construct(a)
    \/ \E a \in Agents : RunStart(a)
    \/ \E a \in Agents : PollGet(a)
    \/ \E a \in Agents : PollTimeout(a)
    \/ \E a \in Agents : HandlerFinish(a)
    \/ \E a \in Agents : Stop(a)
    \/ \E a \in Agents : Shutdown(a)
    \/ SendPing

\* Both run() tasks are scheduled by the event loop whenever they can step.
PingSpec == Init /\ [][PingNext]_vars /\ \A a \in Agents : WF_vars(AgentStep(a))

\* ------------------------------------------------ the router's coroutines
\* route() up to its await: the lookup.  Without an inbox it returns False.
RouteLookup(m) ==
    /\ nroutes < MaxRoutes
    /\ nroutes' = nroutes + 1
    /\ IF m.receiver \notin DOMAIN agents
       THEN /\ ret' = Log("route", "-", m, "-", <<[msg |-> m, ok |-> FALSE]>>)
            /\ pending' = pending
       ELSE /\ pending' = pending \cup {[msg |-> m, receiver_inbox |-> agents[m.receiver]]}
            /\ ret' = ret
    /\ UNCHANGED <<agents, inbox, closed, handlers, running, pc, cur, non,
                   workflows, scripts, rtask, res, call, response, setorder, pending_queries>>

\* route() from its await on: the put on the inbox the lookup returned, and the
\* return value.
RoutePut ==
    \E p \in pending :
        /\ pending' = pending \ {p}
        /\ IF PutRaises(closed, p.receiver_inbox)
           THEN /\ inbox' = inbox
                /\ ret' = Log("route", "-", p.msg, "-", <<[msg |-> p.msg, ok |-> FALSE]>>)
           ELSE /\ inbox' = [inbox EXCEPT ![p.receiver_inbox] = Append(@, p.msg)]
                /\ ret' = Log("route", "-", p.msg, "-", <<[msg |-> p.msg, ok |-> TRUE]>>)
        /\ UNCHANGED <<agents, closed, handlers, running, pc, cur, nroutes, non,
                       workflows, scripts, rtask, res, call, response, setorder, pending_queries>>

\* The owner of a caller's inbox shuts it down (asyncio.Queue.shutdown()): a
\* put on it raises from then on.
CloseInbox(q) ==
    /\ q \notin closed
    /\ closed' = closed \cup {q}
    /\ UNCHANGED <<agents, inbox, handlers, running, pc, cur, nroutes, non,
                   workflows, scripts, rtask, res, call, ret, pending, response, setorder, pending_queries>>

\* A route call holds the event loop from its lookup to its put unless the put
\* suspends.
Busy == \E p \in pending : ~PutSuspends(inbox, p.receiver_inbox)

\* Callers that register, unregister and route on one event loop.
RouterNext ==
    \/ RoutePut
    \/ /\ ~Busy
       /\ \/ \E n \in Receivers, q \in ExtInboxes : Register(n, q)
          \/ \E n \in Receivers : Unregister(n)
          \/ \E q \in ExtInboxes : CloseInbox(q)
          \/ \E s \in Senders, r \in Receivers :
               RouteLookup(create(REQUEST, s, r, nroutes + 1, "test_type", [data |-> "test"]))

RouterSpec == Init /\ [][RouterNext]_vars

\* ------------------------------------------------ two agents of one name
\* Two PongerAgent objects on one router, the second made while the first
\* exists, with a caller that sends pings to the name they share.
TwinNext ==
    \/ \E a \in {"ponger", "ponger2"} : Construct(a)
    \/ \E a \in Agents : RunStart(a)
    \/ \E a \in Agents : PollGet(a)
    \/ \E a \in Agents : PollTimeout(a)
    \/ \E a \in Agents : HandlerFinish(a)
    \/ \E a \in Agents : Stop(a)
    \/ \E a \in Agents : Shutdown(a)
    \/ Route(create(REQUEST, "client", "ponger", nroutes + 1, "ping", [message |-> "ping"]))

TwinSpec == Init /\ [][TwinNext]_vars

\* ------------------------------------------- the chat agent and the resolver
\* What the CLI sends to the chat agent: `user_text` with a text, or `query`
\* with a question.
RequestContents ==
    { [text |-> x] : x \in UserTexts } \cup { [question |-> x] : x \in {X_empty, X_faq} }

RequestType(c) == IF "text" \in DOMAIN c THEN "user_text" ELSE "query"

\* process_user_text: a request routed to the chat agent under a fresh
\* conversation id, from the name the caller's inbox is registered under.
SendRequest(c) ==
    Route(create(REQUEST, "client", "chat", nroutes + 1, RequestType(c), c))

\* Answers that reach the chat agent from elsewhere than the resolver's run on
\* the request: under a conversation id in use or under a new one.
StrayAnswers ==
    { [t |-> "response", c |-> [answer |-> Text("hello", <<>>)]],
      [t |-> "script_results", c |-> [scripts |-> <<>>]],
      [t |-> "workflow_results", c |-> [workflows |-> <<"w">>]],
      [t |-> "plan", c |-> [plan |-> NoPlan, workflow_id |-> "w", workflow_name |-> <<>>]] }

SendStray(s, id) ==
    Route(create(INFORM, "dbm", "chat", id, s.t, s.c))

\* The chat agent and the translator with the CLI as their caller.  The CLI
\* starts the loops and stops them only when it has its answer or has given
\* up; here nobody stops them.
ChatNext ==
    \/ \E a \in {"chat", "translator"} : Construct(a)
    \/ \E a \in Agents : RunStart(a)
    \/ \E a \in Agents : PollGet(a)
    \/ \E a \in Agents : PollTimeout(a)
    \/ \E a \in Agents : HandlerFinish(a)
    \/ Register("client", "q1")
    \/ \E c \in RequestContents : SendRequest(c)

\* The event loop keeps running every started run() coroutine: the handler
\* invocation in progress ends (HandlerFinish), and a message that waits in
\* the inbox is taken by the pending queue.get() (PollGet).  Both are stated
\* over the agent's position and inbox alone.
HandlerEnds(a) ==
    /\ pc[a] = "handling"
    /\ pc' = [pc EXCEPT ![a] = LoopTest(running[a])]

MessageTaken(a) ==
    /\ pc[a] = "poll"
    /\ inbox[a] # <<>>
    /\ inbox' = [inbox EXCEPT ![a] = Tail(@)]

ChatSpec ==
    /\ Init
    /\ [][ChatNext]_vars
    /\ \A a \in {"chat", "translator"} :
           WF_pc(HandlerEnds(a)) /\ WF_inbox(MessageTaken(a))

\* The same with other agents that send answers to the chat agent.
RelayNext ==
    \/ ChatNext
    \/ \E s \in StrayAnswers, id \in 1..MaxRoutes : SendStray(s, id)

RelaySpec == Init /\ [][RelayNext]_vars

\* ------------------------------------------- handlers that raise on errors
\* agent.on(content_type, handler) by a caller that attaches a raising handler;
\* the table is finite, so these calls are not counted.
Attach(a, t, h) ==
    /\ pc[a] # "none"
    /\ handlers[a] # on(handlers[a], t, h)
    /\ handlers' = [handlers EXCEPT ![a] = on(@, t, h)]
    /\ UNCHANGED <<agents, inbox, closed, running, pc, cur, nroutes, non, workflows, scripts, rtask, res, call, ret, pending, response, setorder, pending_queries>>

\* pinger.send("ponger", REQUEST, "test_type", {"data": "test"})
SendTest ==
    /\ pc["pinger"] # "none"
    /\ Route(create(REQUEST, AgentName("pinger"), "ponger", nroutes + 1, "test_type",
                    [data |-> "test"]))

\* Two agents whose callers attach raising handlers for `test_type` and for
\* `error`, and requests sent from one to the other.  Nobody stops the loops.
ErrorNext ==
    \/ \E a \in {"pinger", "ponger"} : Construct(a)
    \/ \E a \in Agents, t \in {"test_type", "error"} : Attach(a, t, "failing_handler")
    \/ \E a \in Agents : RunStart(a)
    \/ \E a \in Agents : PollGet(a)
    \/ \E a \in Agents : PollTimeout(a)
    \/ \E a \in Agents : HandlerFinish(a)
    \/ SendTest

ErrorSpec == Init /\ [][ErrorNext]_vars /\ \A a \in Agents : WF_vars(AgentStep(a))

\* ------------------------------------------- direct calls of the resolver
\* Provider snapshots: up to MaxWorkflows distinct workflows in any order.
Catalogs ==
    UNION { {c \in [1..n -> WorkflowPool] : \A i, j \in 1..n : i # j => c[i] # c[j]} :
            n \in 0..MaxWorkflows }

ResolverInit ==
    /\ BusInit
    /\ workflows \in Catalogs
    /\ scripts = ProvidedScripts
    /\ rtask \in Tasks
    /\ res = NoRes
    /\ call = NoCall
    /\ setorder \in SetOrders

\* await translator._find_best_workflow(task)
FindBest ==
    /\ res' = [op |-> "find_best_workflow",
               workflow |-> find_best_workflow(rtask, workflows),
               ok |-> TRUE, plan |-> NoPlan]
    /\ UNCHANGED <<agents, inbox, closed, handlers, running, pc, cur, nroutes, non,
                   workflows, scripts, rtask, call, ret, pending, response, setorder, pending_queries>>

\* await translator._compute_plan(task, workflow) on the workflow selected
ComputePlan ==
    /\ res.op = "find_best_workflow"
    /\ res.workflow # NoWorkflow
    /\ LET cp == compute_plan(rtask, res.workflow, scripts)
       IN  res' = [op |-> "compute_plan", workflow |-> res.workflow,
                   ok |-> cp.ok, plan |-> cp.plan]
    /\ UNCHANGED <<agents, inbox, closed, handlers, running, pc, cur, nroutes, non,
                   workflows, scripts, rtask, call, ret, pending, response, setorder, pending_queries>>

\* await translator.handle_message(message) called directly with a `task`
\* message made of Task.to_dict(); the translator is not registered with the
\* router of this run, nor is the sender.
DirectHandle ==
    /\ \E fault \in Faults :
         LET m == create(REQUEST, "client", "translator", 1, "task", rtask)
             h == handlers_get(SetupHandlers("translator"), m.content_type)
             r == RouteAll(agents, inbox, closed,
                           HandlerRoutes("translator", h, m, fault))
         IN  /\ inbox' = r.inbox
             /\ ret' = Log("handled", "translator", m, h, r.results)
    /\ UNCHANGED <<agents, closed, handlers, running, pc, cur, nroutes, non,
                   workflows, scripts, rtask, res, call, pending, response, setorder, pending_queries>>

\* The interpreter is started again on the same provider snapshot and a new
\* translator is made; the caller keeps the task and the result it has.
Restart ==
    /\ setorder' \in SetOrders \ {setorder}
    /\ UNCHANGED <<agents, inbox, closed, handlers, running, pc, cur, nroutes, non,
                   workflows, scripts, rtask, res, call, ret, pending, response, pending_queries>>

ResolverNext == FindBest \/ ComputePlan \/ DirectHandle \/ Restart

ResolverSpec == ResolverInit /\ [][ResolverNext]_vars

\* ================================================================ properties
\* A step in which router.route was called once (by a caller or by a handler);
\* the call and its return value are ret'.routes[1].
RouteCall == ret' # ret /\ Len(ret'.routes) = 1

SameStream(m1, m2) ==
    /\ m1.performative = REQUEST
    /\ m2.performative = REQUEST
    /\ m1.sender = m2.sender
    /\ m1.receiver = m2.receiver

InboxOrdered ==
    \A q \in Inboxes : \A i, j \in DOMAIN inbox[q] :
        (i < j /\ SameStream(inbox[q][i], inbox[q][j]))
            => inbox[q][i].conversation_id < inbox[q][j].conversation_id

\* C3: per-inbox FIFO: of two requests routed one after the other by the same
\* sender to the same receiver, the first is ahead of the second in the inbox,
\* and the dispatch loop dequeues the first before the second.
C3_PerInboxFifo ==
    /\ []InboxOrdered
    /\ [][(ret' # ret /\ ret'.op \in {"get", "drop"}) =>
            /\ ret'.msg = Head(inbox[ret'.agent])
            /\ \A k \in Range(inbox'[ret'.agent]) :
                 SameStream(ret'.msg, k) =>
                    ret'.msg.conversation_id < k.conversation_id]_vars

\* The loop has dequeued the first of two requests while the second waits.
C3_Witness ==
    /\ ret.op \in {"get", "drop"}
    /\ \E k \in Range(inbox[ret.agent]) : SameStream(ret.msg, k)

\* C4: Message.reply on M yields R with R.conversation_id = M.conversation_id,
\* R.receiver = M.sender, R.sender = M.receiver unless a sender override is
\* given, in which case R.sender is the override; performative, content_type
\* and content of R are the arguments supplied.
C4_ReplyCorrelation ==
    call.op = "reply" =>
        /\ call.result.conversation_id = call.self.conversation_id
        /\ call.result.receiver = call.self.sender
        /\ call.result.sender =
              (IF call.sender = None THEN call.self.receiver ELSE call.sender)
        /\ call.result.performative = call.performative
        /\ call.result.content_type = call.content_type
        /\ call.result.content = call.content

\* An invocation of a raising handler by agent a ends in this step.
RaisingHandlerEnds(a) ==
    /\ pc[a] = "handling"
    /\ pc'[a] # "handling"
    /\ cur[a].handler = "failing_handler"

\* The automatic reply f to message m handled by agent a.
IsFailureFor(f, m, a) ==
    /\ f.performative = FAILURE
    /\ f.content_type = "error"
    /\ f.conversation_id = m.conversation_id
    /\ f.sender = AgentName(a)
    /\ f.receiver = m.sender
    /\ DOMAIN f.content = {"error", "original_content_type"}
    /\ f.content.original_content_type = m.content_type

InLoop(a) == pc[a] \in {"poll", "handling"}

\* A message of conversation c and performative p waits in a's inbox.
Waiting(a, c, p) ==
    \E i \in DOMAIN inbox[a] :
        inbox[a][i].conversation_id = c /\ inbox[a][i].performative = p

\* The loop of agent a has passed that message to handle_message.
Dequeued(a, c, p) ==
    /\ ret.op \in {"get", "drop"}
    /\ ret.agent = a
    /\ ret.msg.conversation_id = c
    /\ ret.msg.performative = p

Performatives == {REQUEST, INFORM, FAILURE}

\* C6: the dispatch loop ends only through a stop request: run() enters its
\* loop, and while _running is set no step (poll timeout, raising handler,
\* unknown content type) takes run() out of its loop; and a message waiting in the inbox of an agent whose
\* loop is running is eventually passed to handle_message unless the agent is
\* stopped.
C6_LoopEndsOnlyByStop ==
    /\ [][\A a \in Agents :
            /\ (pc[a] = "created" /\ pc'[a] # "created") => InLoop(a)'
            /\ (InLoop(a) /\ running[a]) => InLoop(a)'
            /\ (InLoop(a) /\ pc'[a] = "exited") => ~running[a]]_vars
    /\ \A a \in Agents : \A c \in 1..MaxRoutes : \A p \in Performatives :
         (InLoop(a) /\ Waiting(a, c, p)) ~> (~running[a] \/ Dequeued(a, c, p))

\* After a handler raised on conversation 1 (its FAILURE reply is on a
\* client inbox) the running agent has dequeued the message of conversation 2.
C6_Witness ==
    /\ ret.op = "get"
    /\ ret.msg.conversation_id = 2
    /\ running[ret.agent]
    /\ pc[ret.agent] = "handling"
    /\ \E q \in ExtInboxes : \E f \in Range(inbox[q]) :
         /\ f.performative = FAILURE
         /\ f.conversation_id = 1
         /\ "original_content_type" \in DOMAIN f.content

\* Agent a dequeues a message whose content_type is not in its handler table.
DequeuesUnknown(a) ==
    /\ pc[a] = "poll"
    /\ inbox[a] # <<>>
    /\ inbox'[a] = Tail(inbox[a])
    /\ Head(inbox[a]).content_type \notin DOMAIN handlers[a]

\* C7: a dequeued message whose content_type has no handler is dropped: no
\* handler invocation starts, nothing is routed (no inbox other than the
\* agent's own changes, and that one only loses the message), and the handler
\* tables and the router map are unchanged.
C7_UnknownTypeDropped ==
    [][\A a \in Agents : DequeuesUnknown(a) =>
        /\ pc'[a] # "handling"
        /\ cur' = cur
        /\ ret'.op = "drop"
        /\ ret'.msg = Head(inbox[a])
        /\ ret'.routes = <<>>
        /\ \A q \in Inboxes \ {a} : inbox'[q] = inbox[q]
        /\ handlers' = handlers
        /\ agents' = agents]_vars

\* The ponger, with a handler registered, has dropped a message of a type
\* without a handler whose sender is registered.
C7_Witness ==
    /\ ret.op = "drop"
    /\ ret.msg.content_type \notin DOMAIN handlers[ret.agent]
    /\ handlers[ret.agent] # <<>>
    /\ ret.msg.sender \in DOMAIN agents
    /\ \A q \in ExtInboxes : inbox[q] = <<>>

\* The invocation of handle_task by agent a ends in this step.
TaskHandlerEnds(a) ==
    /\ pc[a] = "handling"
    /\ pc'[a] # "handling"
    /\ cur[a].handler = "handle_task"

ReplyKinds ==
    {<<INFORM, "plan">>, <<FAILURE, "plan">>, <<FAILURE, "error">>}

\* C8: handling a `task` message M ends with exactly one route call, of a
\* reply addressed to M.sender with M's conversation id, which is INFORM plan,
\* FAILURE plan or FAILURE error; a content that Task.from_dict rejects is
\* answered with FAILURE error.
C8_ExactlyOneReply ==
    [][\A a \in Agents : TaskHandlerEnds(a) =>
        /\ Len(ret'.routes) = 1
        /\ LET R == ret'.routes[1].msg
               M == cur[a].msg
           IN  /\ R.receiver = M.sender
               /\ R.sender = AgentName(a)
               /\ R.conversation_id = M.conversation_id
               /\ <<R.performative, R.content_type>> \in ReplyKinds
               /\ ~from_dict(M.content).ok =>
                     <<R.performative, R.content_type>> = <<FAILURE, "error">>]_vars

\* A task content that does not parse was answered with one FAILURE error
\* that reached the client.
C8_Witness ==
    /\ ret.op = "handled"
    /\ ret.handler = "handle_task"
    /\ ret.msg.content \in BadContents
    /\ Len(ret.routes) = 1
    /\ ret.routes[1].ok
    /\ ret.routes[1].msg.performative = FAILURE
    /\ ret.routes[1].msg.content_type = "error"
    /\ ret.routes[1].msg.conversation_id = ret.msg.conversation_id

\* C9: a reply of content_type plan is INFORM exactly when the plan it carries
\* has no missing inputs, and is FAILURE carrying `missing` = plan.missing and
\* the plan exactly when plan.missing is not empty; the plan carried is the one
\* _compute_plan returns for the selected workflow; no other reply is INFORM.
C9_NoSuccessWithMissing ==
    [][\A a \in Agents : (TaskHandlerEnds(a) /\ Len(ret'.routes) = 1) =>
        LET R == ret'.routes[1].msg
            M == cur[a].msg
            parsed == from_dict(M.content)
            best == find_best_workflow(parsed.task, workflows)
        IN  /\ R.performative = INFORM => R.content_type = "plan"
            /\ R.content_type = "plan" =>
                 /\ parsed.ok
                 /\ best # NoWorkflow
                 /\ compute_plan(parsed.task, best, scripts).ok
                 /\ R.content.plan = compute_plan(parsed.task, best, scripts).plan
                 /\ R.performative = INFORM <=> R.content.plan.missing = <<>>
                 /\ R.performative = FAILURE <=> R.content.plan.missing # <<>>
                 /\ R.performative = FAILURE =>
                      /\ DOMAIN R.content = {"reason", "missing", "plan"}
                      /\ R.content.missing = R.content.plan.missing
                 /\ R.performative = INFORM =>
                      /\ DOMAIN R.content = {"plan", "workflow_id", "workflow_name"}
                      /\ R.content.workflow_id = best.id]_vars

\* A task without its weather input was answered with FAILURE plan carrying
\* the missing list and the plan.
C9_Witness ==
    /\ ret.op = "handled"
    /\ ret.handler = "handle_task"
    /\ Len(ret.routes) = 1
    /\ ret.routes[1].msg.performative = FAILURE
    /\ ret.routes[1].msg.content_type = "plan"
    /\ ret.routes[1].msg.content.missing # <<>>
    /\ ret.routes[1].msg.content.plan.plan # <<>>

\* Every candidate's score is at most that of candidate i, and every
\* candidate before i scores strictly less.
FirstMaximum(task, candidates, i) ==
    \A j \in DOMAIN candidates :
        /\ calculate_workflow_score(task, candidates[j])
             <= calculate_workflow_score(task, candidates[i])
        /\ j < i => calculate_workflow_score(task, candidates[j])
                      < calculate_workflow_score(task, candidates[i])

\* C10: _find_best_workflow returns the candidate with the highest score, the
\* first such candidate in the provider's order when several share it, and
\* None exactly when there is no candidate; a workflow without tag overlap is
\* never returned.
C10_HighestScoreFirstWins ==
    res.op = "find_best_workflow" =>
        LET candidates == get_candidate_workflows(rtask, workflows)
        IN  /\ candidates = <<>> <=> res.workflow = NoWorkflow
            /\ candidates # <<>> =>
                 \E i \in DOMAIN candidates :
                    /\ res.workflow = candidates[i]
                    /\ FirstMaximum(rtask, candidates, i)
            /\ res.workflow # NoWorkflow => HasOverlap(rtask, res.workflow)

\* Two candidates share the highest score and the first of them was returned,
\* while the provider also holds a workflow that is not the one returned.
C10_Witness ==
    /\ res.op = "find_best_workflow"
    /\ Len(workflows) = 2
    /\ HasOverlap(rtask, workflows[1])
    /\ HasOverlap(rtask, workflows[2])
    /\ calculate_workflow_score(rtask, workflows[1])
         = calculate_workflow_score(rtask, workflows[2])
    /\ res.workflow = workflows[1]

\* The provider holds a workflow that shares a tag with the tags of the task.
SomeCandidate ==
    \E w \in Range(workflows) : extract_task_tags(rtask) \cap Range(w.tags) # {}

\* The reply R says that no workflow was found for the task given.
IsNoWorkflowError(R) ==
    /\ R.performative = FAILURE
    /\ R.content_type = "error"
    /\ R.content = [error |-> Text("No workflow found for intent", rtask.intent)]

\* C11: the candidates are exactly the provider's workflows that share a tag
\* with tags(task), in the provider's order; _find_best_workflow returns None
\* exactly when there is no candidate; and handle_task answers `No workflow
\* found` only when there is no candidate, and without a candidate never
\* answers with a plan.
C11_CandidateIffOverlap ==
    /\ Range(get_candidate_workflows(rtask, workflows))
         = {w \in Range(workflows) :
              extract_task_tags(rtask) \cap Range(w.tags) # {}}
    /\ res.op = "find_best_workflow" =>
         (res.workflow = NoWorkflow <=> ~SomeCandidate)
    /\ (ret.op = "handled" /\ ret.handler = "handle_task") =>
         /\ Len(ret.routes) = 1
         /\ IsNoWorkflowError(ret.routes[1].msg) => ~SomeCandidate
         /\ ~SomeCandidate =>
              /\ ret.routes[1].msg.performative = FAILURE
              /\ ret.routes[1].msg.content_type = "error"
              /\ ret.routes[1].msg.content.error.text
                   \in {"No workflow found for intent", "Failed to process task"}

\* A task whose tags match none of the workflows of a non-empty provider was
\* answered with `No workflow found`, and _find_best_workflow returned None.
C11_Witness ==
    /\ workflows # <<>>
    /\ res.op = "find_best_workflow"
    /\ res.workflow = NoWorkflow
    /\ ret.op = "handled"
    /\ IsNoWorkflowError(ret.routes[1].msg)

\* The names of the inputs flagged required of the scripts the provider has
\* for the steps of the workflow _compute_plan was called on.
RequiredNames ==
    {inp.name : inp \in
        {x \in UNION {Range(scripts[id].inputs) :
                        id \in {st.script_id : st \in Range(res.workflow.steps)}
                               \cap DOMAIN scripts} : x.required}}

\* Some script requires a weather (geometry) input.
WeatherRequired ==
    \E n \in RequiredNames : n = S_weather_file \/ Contains(S_weather, lower(n))
GeometryRequired ==
    \E n \in RequiredNames : n = S_buildings \/ Contains(S_geometry, lower(n))

\* The task's inputs satisfy the weather (geometry) category.
WeatherSatisfied ==
    \/ \E i \in DOMAIN rtask.inputs : endswith(rtask.inputs[i][2], Ext_epw)
    \/ \E i \in DOMAIN rtask.inputs : rtask.inputs[i][1] = S_weather
GeometrySatisfied ==
    \/ \E i \in DOMAIN rtask.inputs : endswith(rtask.inputs[i][2], Ext_geojson)
    \/ \E i \in DOMAIN rtask.inputs : rtask.inputs[i][1] = S_geometry

\* _compute_plan has returned a plan for the workflow selected for the task.
PlanComputed == res.op = "compute_plan" /\ res.ok

\* C12: when a script of the selected workflow requires a weather input,
\* plan.missing contains weather_epw exactly when no task input value ends in
\* .epw and the task has no input key weather; likewise geometry, with
\* .geojson and the key geometry.
C12_WeatherGeometryMissing ==
    PlanComputed =>
        /\ WeatherRequired =>
             ("weather_epw" \in Range(res.plan.missing) <=> ~WeatherSatisfied)
        /\ GeometryRequired =>
             ("geometry" \in Range(res.plan.missing) <=> ~GeometrySatisfied)

\* A plan for a workflow whose script requires weather and geometry, for a
\* task with a .geojson input and no weather: weather_epw alone is missing.
C12_Witness ==
    /\ PlanComputed
    /\ WeatherRequired
    /\ GeometryRequired
    /\ ~WeatherSatisfied
    /\ GeometrySatisfied
    /\ res.plan.missing = <<"weather_epw">>

\* C13: when a script of the selected workflow requires an input named
\* scenario_config, plan.missing contains scenario_config if and only if
\* neither the weather nor the geometry category is satisfied by the task's
\* inputs.
C13_ScenarioConfigMissing ==
    (PlanComputed /\ S_scenario_config \in RequiredNames) =>
        ("scenario_config" \in Range(res.plan.missing)
            <=> (~WeatherSatisfied /\ ~GeometrySatisfied))

\* C14: cooperative stop: once _running is false while run() is in its loop,
\* the only steps run() takes are the end of the poll cycle in progress (a
\* dequeued message is still handled) and the exit; and run() eventually
\* returns.
C14_StopEndsLoop ==
    /\ [][\A a \in Agents :
            (InLoop(a) /\ ~running[a] /\ pc'[a] # pc[a]) =>
                \/ pc'[a] = "exited"
                \/ pc[a] = "poll" /\ pc'[a] = "handling"]_vars
    /\ \A a \in Agents : (InLoop(a) /\ ~running[a]) ~> (pc[a] = "exited")

\* run() has returned right after the handler invocation that was in progress
\* ended, leaving a message in the inbox.
C14_Witness ==
    /\ pc["ponger"] = "exited"
    /\ ret.op = "handled"
    /\ ret.agent = "ponger"
    /\ inbox["ponger"] # <<>>

\* C15: when shutdown() of an agent returns, the agent's name is not a key of
\* the router map; a name enters the map only by a register_agent call (a
\* caller's, or the one in a constructor); and a route call addressed to a
\* name that is not in the map returns false and delivers nothing.
C15_ShutdownUnregisters ==
    [][/\ \A a \in Agents : Shutdown(a) => AgentName(a) \notin DOMAIN agents'
       /\ \A n \in (DOMAIN agents') \ (DOMAIN agents) :
            \/ \E q \in ExtInboxes : Register(n, q)
            \/ \E a \in Agents : AgentName(a) = n /\ Construct(a)
       /\ (RouteCall /\ ret'.routes[1].msg.receiver \notin DOMAIN agents) =>
            ~ret'.routes[1].ok /\ inbox' = inbox]_vars

\* The ponger, registered by its constructor, was shut down, and a later
\* route call addressed to it returned false.
C15_Witness ==
    /\ pc["ponger"] # "none"
    /\ ~running["ponger"]
    /\ "ponger" \notin DOMAIN agents
    /\ ret.op = "route"
    /\ ret.msg.receiver = "ponger"
    /\ ~ret.routes[1].ok

\* The lifecycle state of agent a: 0 not constructed, 1 created, 2 running,
\* 3 stopping (in the loop with _running false), 4 stopped (run() returned).
Phase(a) ==
    CASE pc[a] = "none" -> 0
      [] pc[a] = "created" -> 1
      [] InLoop(a) /\ running[a] -> 2
      [] InLoop(a) /\ ~running[a] -> 3
      [] OTHER -> 4

\* Agent a stays in its state or moves to the next one, and does not dequeue
\* or handle anything once stopped.
LifecycleStep(a) ==
    /\ Phase(a)' \in {Phase(a), Phase(a) + 1}
    /\ pc[a] = "exited" =>
         /\ pc'[a] = "exited"
         /\ Len(inbox'[a]) >= Len(inbox[a])
         /\ cur'[a] = cur[a]

Registered(a) ==
    AgentName(a) \in DOMAIN agents /\ agents[AgentName(a)] = a

\* s is a prefix of t.
IsPrefix(s, t) == Len(s) <= Len(t) /\ SubSeq(t, 1, Len(s)) = s

\* C17: the constructor registers the agent, and only a shutdown() takes the
\* registration away; a message routed to a registered agent that has not
\* started run() is accepted and appended to its inbox; nothing leaves the
\* inbox before run() starts, run() starts with the inbox as it is and dequeues
\* from its head; and a message waiting in the inbox of a running agent
\* eventually leaves it unless the agent is stopped.
C17_RegisteredWhenCreated ==
    /\ [][\A a \in Agents :
            /\ Construct(a) => Registered(a)'
            /\ (pc[a] = "created" /\ Registered(a) /\ ~Registered(a)') => Shutdown(a)
            /\ (/\ pc[a] = "created"
                /\ Registered(a)
                /\ RouteCall
                /\ ret'.routes[1].msg.receiver = AgentName(a)) =>
                    /\ ret'.routes[1].ok
                    /\ inbox'[a] = Append(inbox[a], ret'.routes[1].msg)
            /\ pc[a] = "created" => IsPrefix(inbox[a], inbox'[a])
            /\ (pc[a] = "poll" /\ Len(inbox'[a]) < Len(inbox[a])) =>
                    /\ inbox'[a] = Tail(inbox[a])
                    /\ ret'.msg = Head(inbox[a])]_vars
    /\ \A a \in Agents : \A c \in 1..MaxRoutes : \A p \in Performatives :
         (InLoop(a) /\ running[a] /\ Waiting(a, c, p))
            ~> (~Waiting(a, c, p) \/ ~running[a])

\* Two messages were routed to the ponger before its run() was called; both
\* were accepted and wait in its inbox in arrival order.
C17_Witness ==
    /\ pc["ponger"] = "created"
    /\ Registered("ponger")
    /\ ret.op = "route"
    /\ ret.routes[1].ok
    /\ Len(inbox["ponger"]) = 2
    /\ inbox["ponger"][2] = ret.msg
    /\ inbox["ponger"][1].conversation_id < inbox["ponger"][2].conversation_id

\* C18: a register call for a name that is already registered replaces its
\* inbox: afterwards the map holds the name once, with the inbox of the later
\* call, and the other names as before; and every route call for a registered
\* name appends to the inbox the map holds for it at that time and changes no
\* other inbox, so the replaced inbox receives nothing further.
C18_LastWriterWins ==
    /\ [](\A n \in Receivers : \A q \in Inboxes :
            LET r == register_agent(agents, n, q)
                m == create(REQUEST, "client", n, 1, "ping", [message |-> "ping"])
                d == route(r, inbox, closed, m)
            IN  /\ DOMAIN r = (DOMAIN agents) \cup {n}
                /\ r[n] = q
                /\ \A o \in (DOMAIN agents) \ {n} : r[o] = agents[o]
                /\ \A i \in Inboxes :
                     d.inbox[i] = IF i = q /\ d.ok THEN Append(inbox[i], m) ELSE inbox[i])
    /\ [][RouteCall =>
            LET m == ret'.routes[1].msg
            IN  m.receiver \in DOMAIN agents =>
                    \A i \in Inboxes :
                        inbox'[i] = IF i = agents[m.receiver] /\ ret'.routes[1].ok
                                    THEN Append(inbox[i], m)
                                    ELSE inbox[i]]_vars

\* The client was registered with q1 and received a message there, was then
\* registered with q2, and the next message for it went to q2 alone.
C18_Witness ==
    /\ "client" \in DOMAIN agents
    /\ agents["client"] = "q2"
    /\ Len(inbox["q1"]) = 1
    /\ ret.op = "route"
    /\ ret.msg.receiver = "client"
    /\ ret.routes[1].ok
    /\ inbox["q2"] = <<ret.msg>>
    /\ inbox["q1"][1].conversation_id < ret.msg.conversation_id

\* C19: registering a name with an inbox twice gives the map one registration
\* gives; unregistering a name that is not registered gives the map back
\* unchanged, and such a call changes nothing at all; and a register or
\* unregister call changes no other name's entry and no inbox.
C19_RegisterIdempotent ==
    /\ [](\A n \in Receivers : \A q \in Inboxes :
            LET r == register_agent(agents, n, q)
                u == unregister_agent(agents, n)
            IN  /\ register_agent(r, n, q) = r
                /\ n \notin DOMAIN agents => u = agents
                /\ unregister_agent(u, n) = u
                /\ \A o \in (DOMAIN agents) \ {n} :
                     /\ o \in DOMAIN r /\ r[o] = agents[o]
                     /\ o \in DOMAIN u /\ u[o] = agents[o])
    /\ [][/\ ((\E q \in ExtInboxes : Register("client", q)) \/ Unregister("client")) =>
                /\ inbox' = inbox
                /\ \A o \in (DOMAIN agents) \ {"client"} :
                     o \in DOMAIN agents' /\ agents'[o] = agents[o]
          /\ ("client" \notin DOMAIN agents /\ Unregister("client")) =>
                UNCHANGED vars]_vars

\* The client is not registered (any longer), the ponger is, and an inbox holds
\* a message: an unregister call for the client here has nothing to remove, and
\* a register call has an entry and an inbox to leave alone.
C19_Witness ==
    /\ "client" \notin DOMAIN agents
    /\ Registered("ponger")
    /\ inbox["q1"] # <<>>
    /\ inbox["ponger"] # <<>>

\* The messages a step appends to inbox i.
Added(i) ==
    IF Len(inbox'[i]) > Len(inbox[i])
    THEN SubSeq(inbox'[i], Len(inbox[i]) + 1, Len(inbox'[i]))
    ELSE <<>>

\* C20: a message enters an inbox only in the step of a route call that returns
\* true for it; a route call that returns false changes no inbox, and no later
\* step (a registration of the receiver included) places its message anywhere.
C20_NoDeferredDelivery ==
    [][/\ \A i \in Inboxes :
            /\ Len(inbox'[i]) > Len(inbox[i]) => IsPrefix(inbox[i], inbox'[i])
            /\ \A k \in 1..Len(Added(i)) :
                 /\ ret' # ret
                 /\ \E j \in 1..Len(ret'.routes) :
                      /\ ret'.routes[j].ok
                      /\ ret'.routes[j].msg = Added(i)[k]
       /\ (RouteCall /\ ~ret'.routes[1].ok) => inbox' = inbox
       /\ (ret.op = "route" /\ ~ret.routes[1].ok /\ ret' = ret) => inbox' = inbox]_vars

\* The last route call was for the client, which was not registered then, and
\* returned false; the client has registered since, and its inbox is empty.
C20_Witness ==
    /\ ret.op = "route"
    /\ ret.msg.receiver = "client"
    /\ ~ret.routes[1].ok
    /\ "client" \in DOMAIN agents
    /\ inbox[agents["client"]] = <<>>
    /\ nroutes = MaxRoutes

\* C21: the registration map is always a function from names to single
\* inboxes, and every route call that returns does at its return what route
\* does as one step on the map, the inboxes and their state of that moment: it
\* appends to the inbox the map holds for the receiver then, or changes nothing
\* and returns false.
C21_RouteAtomic ==
    /\ [](/\ DOMAIN agents \subseteq Receivers
          /\ \A n \in DOMAIN agents : agents[n] \in Inboxes)
    /\ [][ret' # ret =>
            LET r == route(agents, inbox, closed, ret'.msg)
            IN  /\ inbox' = r.inbox
                /\ ret'.routes = <<[msg |-> ret'.msg, ok |-> r.ok]>>]_vars

\* Two senders routed to the same name, which was registered with another
\* inbox between the two calls: each message is on the inbox that was mapped
\* when its call ran, and no call is left between its lookup and its put.
C21_Witness ==
    /\ Len(inbox["q1"]) = 1
    /\ Len(inbox["q2"]) = 1
    /\ inbox["q1"][1].receiver = inbox["q2"][1].receiver
    /\ inbox["q1"][1].sender # inbox["q2"][1].sender
    /\ inbox["q1"][1].conversation_id < inbox["q2"][1].conversation_id
    /\ ret.routes = <<[msg |-> inbox["q2"][1], ok |-> TRUE]>>
    /\ agents[ret.msg.receiver] = "q2"
    /\ pending = {}

\* The pinger and the ponger are registered and their loops are running.
BothUp ==
    \A a \in {"pinger", "ponger"} : Registered(a) /\ InLoop(a) /\ running[a]

\* The pong of conversation c.
Pong(c) == create(INFORM, "ponger", "pinger", c, "pong", [message |-> "pong"])

\* send_ping has just returned true for conversation c.
PingSent(c) ==
    /\ ret.op = "route"
    /\ ret.routes[1].ok
    /\ ret.msg = create(REQUEST, "pinger", "ponger", c, "ping", [message |-> "ping"])

\* The pinger's handler has just run on the pong of conversation c.
PongHandled(c) ==
    /\ ret.op = "handled"
    /\ ret.agent = "pinger"
    /\ ret.handler = "handle_pong"
    /\ ret.msg = Pong(c)
    /\ response = [received |-> TRUE, message |-> Pong(c)]

\* C22: the ponger answers every ping it handles with one message: an INFORM
\* `pong` from ponger to the ping's sender under the ping's conversation id;
\* and after every successful send_ping(c) the pinger eventually handles that
\* pong, unless one of the two agents is stopped, shut down or not yet running.
C22_PingPongRoundTrip ==
    /\ [][(ret' # ret /\ ret'.op = "handled" /\ ret'.handler = "handle_ping") =>
            ret'.routes = <<[msg |-> create(INFORM, "ponger", ret'.msg.sender,
                                            ret'.msg.conversation_id, "pong",
                                            [message |-> "pong"]),
                             ok |-> ret'.msg.sender \in DOMAIN agents]>>]_vars
    /\ \A c \in 1..MaxRoutes : PingSent(c) ~> (PongHandled(c) \/ ~BothUp)

\* The pinger has handled the pong of the second conversation while both
\* agents were up.
C22_Witness == PongHandled(MaxRoutes) /\ BothUp

\* C23: on(content_type, handler) leaves the table with that handler for the
\* content type and every other entry as it was; a dequeued message is passed
\* to exactly the handler the table holds for its content type at that moment,
\* and the invocation that ends is of that one handler on that one message, so
\* a handler that was replaced is not looked up again.
C23_LastHandlerWins ==
    /\ [](\A a \in Agents : \A t \in ContentTypesOn : \A h \in HandlersOn :
            LET tbl == on(handlers[a], t, h)
            IN  /\ DOMAIN tbl = (DOMAIN handlers[a]) \cup {t}
                /\ tbl[t] = h
                /\ \A o \in (DOMAIN handlers[a]) \ {t} : tbl[o] = handlers[a][o])
    /\ [][\A a \in Agents :
            /\ (pc[a] = "poll" /\ pc'[a] = "handling") =>
                 /\ Head(inbox[a]).content_type \in DOMAIN handlers[a]
                 /\ cur'[a] = [msg |-> Head(inbox[a]),
                               handler |-> handlers[a][Head(inbox[a]).content_type]]
                 /\ ret' = Log("get", a, cur'[a].msg, cur'[a].handler, <<>>)
            /\ (pc[a] = "handling" /\ pc'[a] # "handling") =>
                 /\ ret'.op = "handled"
                 /\ ret'.agent = a
                 /\ ret'.msg = cur[a].msg
                 /\ ret'.handler = cur[a].handler]_vars

\* The ponger's handler for `ping` was replaced by a later on("ping"), and the
\* ping dequeued after that has been passed to the later handler.
C23_Witness ==
    /\ ret.op = "get"
    /\ ret.agent = "ponger"
    /\ ret.msg.content_type = "ping"
    /\ ret.handler \in HandlersOn
    /\ ret.handler # SetupHandlers("ponger")["ping"]
    /\ cur["ponger"].handler = ret.handler

\* sub occurs in s as a run of consecutive characters.
IsSubstring(sub, s) ==
    \E i \in 0..(Len(s) - Len(sub)) : \A k \in 1..Len(sub) : s[i + k] = sub[k]

\* The maximal runs of s that hold no character of seps.
MaximalRuns(s, seps) ==
    { SubSeq(s, p[1], p[2]) :
        p \in { q \in (1..Len(s)) \X (1..Len(s)) :
                 /\ q[1] <= q[2]
                 /\ \A k \in q[1]..q[2] : s[k] \notin seps
                 /\ (q[1] = 1 \/ s[q[1] - 1] \in seps)
                 /\ (q[2] = Len(s) \/ s[q[2] + 1] \in seps) } }

\* The words of s: the maximal runs of s without a space.
WordsOf(s) == MaximalRuns(s, {" "})

\* The score as the claim words it.
ScoreFormula(t, w) ==
    Cardinality({x \in extract_task_tags(t) : \E i \in DOMAIN w.tags : w.tags[i] = x})
    + (IF IsSubstring(t.intent, w.name) \/ \E word \in WordsOf(t.intent) : IsSubstring(word, w.name)
       THEN 5 ELSE 0)
    + (IF t.scope # NoScope /\ \E i \in DOMAIN w.tags : w.tags[i] = t.scope THEN 2 ELSE 0)

\* C24: the score _calculate_workflow_score gives a task and a workflow is the
\* number of the task's tags among the workflow's tags, plus 5 if the
\* workflow's name contains the intent or one of its space-separated words,
\* plus 2 if the task has a scope and it is one of the workflow's tags.
C24_ScoreFormula ==
    \A w \in WorkflowPool : calculate_workflow_score(rtask, w) = ScoreFormula(rtask, w)

\* The selected workflow scored on all three parts for its task: tags in
\* common, a word of the intent (not the whole intent) inside its name, and the
\* scope among its tags.
C24_Witness ==
    /\ res.op = "find_best_workflow"
    /\ res.workflow # NoWorkflow
    /\ ~IsSubstring(rtask.intent, res.workflow.name)
    /\ \E word \in WordsOf(rtask.intent) : IsSubstring(word, res.workflow.name)
    /\ rtask.scope \in Range(res.workflow.tags)
    /\ calculate_workflow_score(rtask, res.workflow)
         = Cardinality(extract_task_tags(rtask) \cap Range(res.workflow.tags)) + 7

\* s ends in ext.
EndsIn(s, ext) ==
    /\ Len(ext) <= Len(s)
    /\ \A k \in 1..Len(ext) : s[Len(s) - Len(ext) + k] = ext[k]

\* The tags of a task as the claim lists them.
TagsFormula(t) ==
    MaximalRuns(lower(t.intent), NonWordChars)
    \cup {x \in {t.scope} : t.scope # NoScope}
    \cup {t.inputs[i][1] : i \in {j \in DOMAIN t.inputs :
            t.inputs[j][1] \in {S_geometry, S_weather, S_schedule, S_data, S_config}}}
    \cup {S_geometry : i \in {j \in DOMAIN t.inputs : EndsIn(t.inputs[j][2], Ext_geojson)}}
    \cup {S_weather : i \in {j \in DOMAIN t.inputs : EndsIn(t.inputs[j][2], Ext_epw)}}
    \cup {S_data : i \in {j \in DOMAIN t.inputs : EndsIn(t.inputs[j][2], Ext_csv)}}
    \cup {S_schedule : i \in {j \in DOMAIN t.inputs : EndsIn(t.inputs[j][2], Ext_xlsx)}}
    \cup {t.constraints[i][1] : i \in {j \in DOMAIN t.constraints :
            t.constraints[j][1] \in {S_algorithm, S_timestep, S_temperature}}}

InRow(t, j, key, ext) == t.inputs[j][1] = key \/ EndsIn(t.inputs[j][2], ext)

\* The rows of the lookup table for inputs: <<key, extension, argument>>.
InputRows ==
    { <<S_geometry, Ext_geojson, "buildings">>,
      <<S_weather, Ext_epw, "weather_file">>,
      <<S_schedule, Ext_xlsx, "occupancy_schedules">>,
      <<S_data, Ext_csv, "energy_demands">> }
\* The constraints passed under their own names.
ConstraintRows == { <<S_algorithm, "algorithm">>, <<S_timestep, "timestep">> }

\* C26: in every step of a computed plan, every task input that belongs to a
\* row of the table is passed as that row's argument, the constraints
\* algorithm and timestep are passed under their own names, and every argument
\* other than the scenario_config default comes from such an input or
\* constraint.
C26_ArgumentMapping ==
    (res.op = "compute_plan" /\ res.ok) =>
        \A i \in DOMAIN res.plan.plan :
            LET args == res.plan.plan[i].args
            IN  /\ \A j \in DOMAIN rtask.inputs : \A row \in InputRows :
                     InRow(rtask, j, row[1], row[2]) =>
                        row[3] \in DOMAIN args /\ args[row[3]] = rtask.inputs[j][2]
                /\ \A j \in DOMAIN rtask.constraints : \A row \in ConstraintRows :
                     rtask.constraints[j][1] = row[1] =>
                        row[2] \in DOMAIN args /\ args[row[2]] = rtask.constraints[j][2]
                /\ \A name \in (DOMAIN args) \ {"scenario_config"} :
                     \/ \E j \in DOMAIN rtask.inputs : \E row \in InputRows :
                          /\ row[3] = name
                          /\ InRow(rtask, j, row[1], row[2])
                          /\ args[name] = rtask.inputs[j][2]
                     \/ \E j \in DOMAIN rtask.constraints : \E row \in ConstraintRows :
                          /\ row[2] = name
                          /\ rtask.constraints[j][1] = row[1]
                          /\ args[name] = rtask.constraints[j][2]

\* C27: resolution changes neither the provider's workflows nor its scripts,
\* and resolving the task again on the same snapshot gives what the earlier
\* resolution gave: the same workflow, and a plan with the same steps, explain,
\* assumptions and missing.
C27_ResolutionDeterministic ==
    /\ [][workflows' = workflows /\ scripts' = scripts]_vars
    /\ [](res.op \in {"find_best_workflow", "compute_plan"} =>
            res.workflow = find_best_workflow(rtask, workflows))
    /\ [](res.op = "compute_plan" =>
            LET again == compute_plan(rtask, res.workflow, scripts)
            IN  /\ res.ok = again.ok
                /\ res.plan.plan = again.plan.plan
                /\ res.plan.explain = again.plan.explain
                /\ res.plan.assumptions = again.plan.assumptions
                /\ res.plan.missing = again.plan.missing)


\* The handler invocation of agent a for its current message ends in this
\* step: every message it sends (its reply, or the FAILURE reply of the except
\* branch) is routed, and only then is the loop test made.
InvocationCompletes(a) ==
    \E fault \in Faults :
       LET r == RouteAll(agents, inbox, closed,
                         HandlerRoutes(a, cur[a].handler, cur[a].msg, fault))
       IN  /\ ret' = Log("handled", a, cur[a].msg, cur[a].handler, r.results)
           /\ inbox' = r.inbox
           /\ pc'[a] = IF running[a] THEN "poll" ELSE "exited"

\* C28: a handler invocation that has started is never interrupted by stop().
\* While agent a handles message M, a step (a stop() included) either leaves
\* the invocation in progress on M or is the invocation's completion with all
\* its replies routed; stop() itself leaves it in progress; and an invocation
\* that stop() found in progress reaches its end, upon which the loop exits.
C28_HandlerNotInterrupted ==
    /\ [][\A a \in Agents :
            pc[a] = "handling" =>
              \/ pc'[a] = "handling" /\ cur'[a] = cur[a]
              \/ InvocationCompletes(a)]_vars
    /\ [][\A a \in Agents :
            (pc[a] = "handling" /\ running[a] /\ ~running'[a]) =>
              (pc'[a] = "handling" /\ cur'[a] = cur[a] /\ inbox' = inbox)]_vars
    /\ \A a \in Agents :
         (pc[a] = "handling" /\ ~running[a]) ~>
           (pc[a] = "exited" /\ ret.op = "handled" /\ ret.agent = a)

\* C28 witness: the ponger was stopped, and the handler it was running has
\* completed with its reply delivered before the loop exited.
C28_Witness ==
    /\ pc["ponger"] = "exited"
    /\ ~running["ponger"]
    /\ ret.op = "handled"
    /\ ret.agent = "ponger"
    /\ ret.routes # <<>>
    /\ ret.routes[1].ok
    /\ \E q \in ExtInboxes : ret.routes[1].msg \in Range(inbox[q])


\* C29: route never raises to its caller.  Every route call that reached its
\* put returns a boolean; when the put fails (the receiver's inbox has been
\* shut down) the call returns false, the registration map and every inbox
\* are as before, and the message is on no inbox.
C29_RouteNeverRaises ==
    [][\A p \in pending :
         pending' = pending \ {p} =>
           /\ ret'.op = "route"
           /\ ret'.msg = p.msg
           /\ Len(ret'.routes) = 1
           /\ ret'.routes[1].ok \in BOOLEAN
           /\ p.receiver_inbox \in closed =>
                /\ ret'.routes = <<[msg |-> p.msg, ok |-> FALSE]>>
                /\ agents' = agents
                /\ inbox' = inbox
                /\ \A q \in Inboxes : p.msg \notin Range(inbox'[q])]_vars

\* C29 witness: a route call to a registered receiver whose inbox had been
\* shut down after it took an earlier message has returned false.
C29_Witness ==
    /\ ret.op = "route"
    /\ ret.routes = <<[msg |-> ret.msg, ok |-> FALSE]>>
    /\ ret.msg.receiver \in DOMAIN agents
    /\ agents[ret.msg.receiver] \in closed
    /\ inbox[agents[ret.msg.receiver]] # <<>>
    /\ pending = {}


\* C30 as stated: a stop() issued on an agent that is constructed and whose
\* run loop has not started is honoured.  The run() entered next, on the flag
\* that stop() left, exits at its first loop test with nothing dequeued.
C30_StopBeforeRunHonoured ==
    \A a \in Agents :
        pc[a] = "created" =>
            LoopTest(run_entry(stop(running[a]))) = "exited"


\* stop() has been called on agent a after its run() was entered, and that
\* run() has not returned.
StoppedInLoop(a) == InLoop(a) /\ ~running[a]

\* This step takes nothing out of a's inbox and starts no handler for a.
NothingDequeued(a) ==
    /\ IsPrefix(inbox[a], inbox'[a])
    /\ cur'[a] = cur[a]
    /\ ~(ret' # ret /\ ret'.agent = a)

\* What a run() on which stop() has been called does: the wait in progress
\* may still return one message, whose handling (or dropping) is followed by
\* the exit; a handler in progress is followed by the exit; nothing else is
\* dequeued.
StoppedRunStep(a) ==
    /\ (StoppedInLoop(a) /\ pc[a] = "poll") =>
         \/ pc'[a] = "poll" /\ NothingDequeued(a)
         \/ pc'[a] = "exited" /\ cur'[a] = cur[a]
         \/ /\ pc'[a] = "handling"
            /\ inbox[a] # <<>>
            /\ cur'[a].msg = Head(inbox[a])
            /\ IsPrefix(Tail(inbox[a]), inbox'[a])
    /\ (StoppedInLoop(a) /\ pc[a] = "handling") =>
         /\ pc'[a] \in {"handling", "exited"}
         /\ IsPrefix(inbox[a], inbox'[a])
         /\ cur'[a] \in {cur[a], NoCur}

Replaced(a, b) ==
    /\ a # b
    /\ AgentName(a) = AgentName(b)
    /\ pc[a] # "none"
    /\ Registered(b)

\* C32 as stated: shutdown() removes only the agent's own registration.  When
\* agent b holds the name that an earlier agent a of the same name lost to it,
\* the map that a's shutdown() leaves still sends the name to b's inbox, and a
\* message routed to the name then is accepted and lands there.
C32_ShutdownRemovesOwnOnly ==
    \A a, b \in Agents :
        Replaced(a, b) =>
            LET after == unregister_agent(agents, AgentName(a))
                m == create(REQUEST, "client", AgentName(b), nroutes + 1, "ping",
                            [message |-> "ping"])
            IN  /\ AgentName(b) \in DOMAIN after
                /\ after[AgentName(b)] = b
                /\ route(after, inbox, closed, m).ok


\* This step ends a handler invocation that raised: handle_message routes the
\* automatic FAILURE reply of content type `error`.
AutomaticFailureSent ==
    /\ ret' # ret
    /\ ret'.op = "handled"
    /\ ret'.routes # <<>>
    /\ ret'.routes[Len(ret'.routes)].msg.performative = FAILURE
    /\ ret'.routes[Len(ret'.routes)].msg.content_type = "error"
    /\ "original_content_type" \in DOMAIN ret'.routes[Len(ret'.routes)].msg.content

\* C33 as stated: automatic error replies terminate.  Whatever the handler
\* tables of the two agents are, from some moment on no automatic FAILURE
\* message is sent any more.
C33_ErrorRepliesTerminate == <>[][~AutomaticFailureSent]_vars


\* Agent a exists and its name is not in the registration map.
Unregistered(a) == pc[a] # "none" /\ AgentName(a) \notin DOMAIN agents

\* C37: unregister (and hence shutdown) removes the mapping and never the
\* inbox contents.  A step that takes a name out of the map leaves every
\* inbox, every loop position and every invocation as it was; the loop of an
\* unregistered agent dequeues from the head, so what was enqueued before is
\* handled in its original order; and a message that waits in the inbox of an
\* unregistered agent whose loop is running is dequeued unless the loop is
\* stopped first.
C37_UnregisterKeepsInbox ==
    /\ [][(DOMAIN agents' # DOMAIN agents /\ DOMAIN agents' \subseteq DOMAIN agents) =>
            /\ inbox' = inbox
            /\ pc' = pc
            /\ cur' = cur
            /\ \A n \in DOMAIN agents' : agents'[n] = agents[n]]_vars
    /\ [][\A a \in Agents :
            (Unregistered(a) /\ ~IsPrefix(inbox[a], inbox'[a])) =>
              /\ pc[a] = "poll"
              /\ inbox'[a] = Tail(inbox[a])
              /\ ret'.op \in {"get", "drop"}
              /\ ret'.agent = a
              /\ ret'.msg = Head(inbox[a])]_vars
    /\ \A a \in Agents : \A c \in 1..MaxRoutes :
         (Unregistered(a) /\ InLoop(a) /\ running[a] /\ Waiting(a, c, REQUEST))
           ~> (Dequeued(a, c, REQUEST) \/ ~running[a])

\* C37 witness: the ponger was shut down with two messages in its inbox; its
\* loop, running, has dequeued the first of them and the second still waits.
C37_Witness ==
    /\ Unregistered("ponger")
    /\ running["ponger"]
    /\ ret.op = "get"
    /\ ret.agent = "ponger"
    /\ inbox["ponger"] # <<>>
    /\ ret.msg.conversation_id < inbox["ponger"][1].conversation_id


\* C38 as stated: the plan has exactly one step per step of the selected
\* workflow, in the workflow's step order and with the same script_id, also
\* when the provider returns no script for a script id the workflow refers to.
C38_OneStepPerWorkflowStep ==
    (res.op = "compute_plan" /\ res.ok) =>
        /\ Len(res.plan.plan) = Len(res.workflow.steps)
        /\ \A i \in 1..Len(res.workflow.steps) :
               /\ i \in DOMAIN res.plan.plan
               /\ res.plan.plan[i].script_id = res.workflow.steps[i].script_id


\* Agent a is registered and its loop is running.
Up(a) == Registered(a) /\ InLoop(a) /\ running[a]

\* The text of a request to the chat agent.
RequestText(m) ==
    IF m.content_type = "query" THEN content_get(m.content, "question", "")
    ELSE content_get(m.content, "text", "")

\* The chat agent's loop has just passed to its handler a `user_text` or
\* `query` message of conversation c with a text that is not empty.
Accepting(c) ==
    /\ ret.op = "get"
    /\ ret.agent = "chat"
    /\ ret.handler \in {"handle_query", "handle_user_text"}
    /\ ret.msg.conversation_id = c
    /\ RequestText(ret.msg) # ""

\* A reply of the chat agent under conversation c is in an inbox of the client.
Answered(c) ==
    \E q \in ExtInboxes : \E i \in DOMAIN inbox[q] :
        /\ inbox[q][i].conversation_id = c
        /\ inbox[q][i].sender = "chat"
        /\ inbox[q][i].receiver = "client"

\* C34 as stated: every `user_text` or `query` message with non-empty text
\* that the chat agent handles while the chat agent and the resolver are
\* running and the original sender is registered is eventually answered: a
\* reply with the request's conversation id reaches the original sender.
C34_RequestEventuallyAnswered ==
    \A c \in 1..MaxRoutes :
        (Accepting(c) /\ Up("chat") /\ Up("translator") /\ "client" \in DOMAIN agents)
            ~> Answered(c)


\* The step is an invocation of handler h of the chat agent that ends.
ChatHandled(hs) ==
    /\ ret' # ret
    /\ ret'.op = "handled"
    /\ ret'.agent = "chat"
    /\ ret'.handler \in hs

\* The handlers of the chat agent that answer a stored request.
AnswerHandlers == {"handle_script_results", "handle_workflow_results",
                   "handle_response", "handle_plan"}

\* The replies (messages to anybody but the translator) routed by the step.
RepliesSent ==
    { i \in DOMAIN ret'.routes : ret'.routes[i].msg.receiver # "translator" }

\* The messages of the chat agent under conversation c in callers' inboxes.
ChatRepliesIn(c) ==
    { <<q, i>> \in ExtInboxes \X (1..8) :
        /\ i \in DOMAIN inbox[q]
        /\ inbox[q][i].sender = "chat"
        /\ inbox[q][i].conversation_id = c }

\* pending_queries gains an entry only in the handling of a `query` or
\* `user_text` with non-empty text, under that message's conversation id.
EntryAddedOnAccept ==
    \A c \in 1..MaxRoutes :
        (c \notin DOMAIN pending_queries /\ c \in DOMAIN pending_queries') =>
            /\ ChatHandled({"handle_query", "handle_user_text"})
            /\ ret'.msg.conversation_id = c
            /\ RequestText(ret'.msg) # ""
            /\ pending_queries'[c] = ret'.msg

\* An entry is deleted in the step that sends the reply to its original
\* sender, and only there; a step that replies leaves no entry behind.
EntryDeletedOnReply ==
    /\ \A c \in 1..MaxRoutes :
          (c \in DOMAIN pending_queries /\ c \notin DOMAIN pending_queries') =>
              /\ ChatHandled(AnswerHandlers)
              /\ ret'.msg.conversation_id = c
              /\ Len(ret'.routes) = 1
              /\ ret'.routes[1].msg.sender = "chat"
              /\ ret'.routes[1].msg.receiver = pending_queries[c].sender
              /\ ret'.routes[1].msg.conversation_id = c
    /\ ChatHandled(ChatHandlers) =>
          /\ Cardinality(RepliesSent) <= 1
          /\ RepliesSent # {} =>
                ret'.msg.conversation_id \notin DOMAIN pending_queries'
          /\ (ret'.handler \in AnswerHandlers /\ RepliesSent # {}) =>
                ret'.msg.conversation_id \in DOMAIN pending_queries

\* An answer whose conversation id is not pending is dropped: nothing is
\* routed and pending_queries stays as it is.
StrayDropped ==
    (/\ ChatHandled(AnswerHandlers)
     /\ ret'.msg.conversation_id \notin DOMAIN pending_queries) =>
        /\ ret'.routes = <<>>
        /\ pending_queries' = pending_queries

C36_PlanRelayedUnchanged ==
    [][ (ChatHandled({"handle_plan"}) /\ ret'.routes # <<>>) =>
            LET c == ret'.msg.conversation_id
                relayed == ret'.routes[1].msg
            IN  /\ c \in DOMAIN pending_queries
                /\ Len(ret'.routes) = 1
                /\ relayed = create(ret'.msg.performative, "chat",
                                    pending_queries[c].sender, c, "plan",
                                    ret'.msg.content)
                /\ relayed.content_type = ret'.msg.content_type
                /\ ret'.routes[1].ok =>
                      /\ relayed.receiver \in DOMAIN agents
                      /\ inbox'[agents[relayed.receiver]] =
                             Append(inbox[agents[relayed.receiver]], relayed) ]_vars

\* The resolver's FAILURE `plan` (a required input is missing) has been
\* relayed and is the last message in the requester's inbox.
C36_Witness ==
    /\ ret.op = "handled"
    /\ ret.agent = "chat"
    /\ ret.handler = "handle_plan"
    /\ ret.msg.sender = "translator"
    /\ ret.msg.performative = FAILURE
    /\ ret.routes # <<>>
    /\ ret.routes[1].ok
    /\ inbox["q1"] # <<>>
    /\ inbox["q1"][Len(inbox["q1"])].performative = FAILURE
    /\ inbox["q1"][Len(inbox["q1"])].content = ret.msg.content

====
